---- MODULE Spec2Model ----
(***************************************************************************)
(* Feature-extraction pipeline of the music-to-color analyzer:             *)
(* audioProcessing.js (tempo, RMS, pitch, timbre, key, mood),              *)
(* moodAnalysis.js (classifyMoodML) and App.js (handleFileUpload).         *)
(*                                                                         *)
(* Numbers.  Samples are integers: the sample value is x / AmpScale.       *)
(* Every quotient the code forms is kept as a pair <<num, den>> with       *)
(* den > 0 and compared by cross-multiplication, so the comparisons of     *)
(* the code are decided exactly (the rounding of IEEE doubles and of       *)
(* Float32Array stores is not modelled).  A JavaScript NaN is the          *)
(* string "NaN", null is "null", undefined is "undefined".                 *)
(***************************************************************************)
EXTENDS Integers, Sequences, FiniteSets, TLC

VARIABLES
    pc,               \* control position of the operation under analysis
    channelData,      \* audioBuffer.getChannelData(0), samples * AmpScale
    sampleRate,       \* audioBuffer.sampleRate
    \* extractTempo
    windowIdx,        \* index into windowSizes of the next window size
    bestTempo,        \* let bestTempo
    maxConfidence,    \* let maxConfidence, <<num, den>>
    lastEstimate,     \* the { tempo, confidence } of the last window size
    tempo,            \* value extractTempo resolved with
    \* extractPitch
    pitchPass,        \* passes of the two loops done so far, 0 .. 6
    pitchCandidates,  \* const pitchCandidates
    correlations,     \* the correlations array of the last autocorrelationPitch
    pitch,            \* value extractPitch returned
    \* extractTimbre
    frameStart,       \* loop variable i of extractTimbre
    segmentFeatures,  \* const segmentFeatures
    timbreFeatures,   \* const timbreFeatures (aggregateTimbreFeatures's result)
    timbre,           \* outcome of extractTimbre: returned value or exception
    \* extractKey
    keyPass,          \* loop variable i of extractKey
    chromagram,       \* const chromagram of the pass in progress
    segmentResults,   \* const segmentResults
    key,              \* outcome of extractKey
    \* extractMood
    moodArgs,         \* the arguments of extractMood
    normalizedFeatures, \* const normalizedFeatures of classifyMoodML
    mood,             \* outcome of extractMood
    \* App: the component state and the upload in progress
    rms,              \* const rms of handleFileUpload
    file,             \* files[0] of the call in progress
    isLoading,
    error,
    audioFeatures,
    notifications,    \* the titles of the notifications shown so far
    uploads,          \* number of calls of handleFileUpload so far
    called,           \* the extractors the call in progress has called, in order
    \* the loop of extractRms
    rmsStart,         \* loop variable i
    rmsSum,           \* let sum, in units of 1 / AmpScale^2
    rmsCount,         \* let count
    \* the loop of detectOnsets
    onsetStart,       \* loop variable i
    energyHistory,    \* const energyHistory, each energy times windowSize
    onsetTimes,       \* const onsetTimes, each time times originalSampleRate
    \* mapToEmotionalState
    emotionArgs,      \* its arguments arousal, valence, dominance
    emotionLabel,     \* the label it returned
    \* generateBaseColor
    colorArgs,        \* its arguments bpm, pitch, rms
    baseColor,        \* the h, s, l of the hsl() string it returned
    \* the spectral and harmonic features of one frame
    spectral,         \* what the five feature functions returned
    \* the calls of handleFileUpload when uploads overlap
    inFlight,         \* per call: its file, where it is, and whether an
                      \* earlier call was suspended when it started
    \* improveColorAccessibility
    access            \* its arguments and its locals

tempoVars == <<windowIdx, bestTempo, maxConfidence, lastEstimate, tempo>>
pitchVars == <<pitchPass, pitchCandidates, correlations, pitch>>
timbreVars == <<frameStart, segmentFeatures, timbreFeatures, timbre>>
keyVars == <<keyPass, chromagram, segmentResults, key>>
moodVars == <<moodArgs, normalizedFeatures, mood>>
appVars == <<rms, file, isLoading, error, audioFeatures, notifications, uploads, called>>
rmsVars == <<rmsStart, rmsSum, rmsCount>>
onsetVars == <<onsetStart, energyHistory, onsetTimes>>
laterVars == <<spectral, inFlight, access>>
unitVars == <<rmsVars, onsetVars, emotionArgs, emotionLabel, colorArgs, baseColor,
              laterVars>>

-----------------------------------------------------------------------------
(* Bounds of the model *)

\* a sample is x / AmpScale with x in -AmpScale .. AmpScale
AmpScale == 2

-----------------------------------------------------------------------------
(* Arithmetic helpers *)

Abs(x) == IF x < 0 THEN -x ELSE x
Min(a, b) == IF a < b THEN a ELSE b
Max(a, b) == IF a > b THEN a ELSE b

\* sum of f[lo..hi], by halving so that the evaluation depth stays small
RECURSIVE SumRange(_, _, _)
SumRange(f, lo, hi) ==
    IF lo > hi THEN 0
    ELSE IF lo = hi THEN f[lo]
    ELSE LET mid == (lo + hi) \div 2
         IN  SumRange(f, lo, mid) + SumRange(f, mid + 1, hi)

RECURSIVE tabulate(_, _, _)
\* the sequence <<Op(lo), ..., Op(hi)>>; the range is halved to keep the
\* evaluation shallow
tabulate(Op(_), lo, hi) ==
    IF lo > hi THEN <<>>
    ELSE IF lo = hi THEN <<Op(lo)>>
    ELSE LET mid == (lo + hi) \div 2
         IN  tabulate(Op, lo, mid) \o tabulate(Op, mid + 1, hi)

\* The product a * b of two naturals below 2^30 as three digits of base 2^15,
\* most significant first: the products the comparisons below need do not
\* fit the 32-bit integers of the model checker.
Limb == 2 ^ 15

wideProduct(a, b) ==
    LET a1 == a \div Limb
        a0 == a % Limb
        b1 == b \div Limb
        b0 == b % Limb
        low == a0 * b0
        mid == a1 * b0 + a0 * b1 + (low \div Limb)
    IN  << a1 * b1 + (mid \div Limb), mid % Limb, low % Limb >>

wideLess(x, y) ==
    \/ x[1] < y[1]
    \/ x[1] = y[1] /\ x[2] < y[2]
    \/ x[1] = y[1] /\ x[2] = y[2] /\ x[3] < y[3]

\* a * b > c * d for integers a, c and naturals b, d
productGt(a, b, c, d) ==
    IF a >= 0 /\ c >= 0 THEN wideLess(wideProduct(c, d), wideProduct(a, b))
    ELSE IF a < 0 /\ c < 0 THEN wideLess(wideProduct(-a, b), wideProduct(-c, d))
    ELSE IF a >= 0 THEN d > 0 \/ (a > 0 /\ b > 0)
    ELSE FALSE

\* q1 > q2, q1 >= q2, q1 = q2 for quotients <<num, den>>, den > 0
QGt(q1, q2) == productGt(q1[1], q2[2], q2[1], q1[2])
QGe(q1, q2) == ~QGt(q2, q1)
QEq(q1, q2) == ~QGt(q1, q2) /\ ~QGt(q2, q1)

\* Naturals of any size, as sequences of digits of base Limb, least
\* significant digit first.
bigOf(n) == <<n % Limb, (n \div Limb) % Limb, n \div (Limb * Limb)>>

RECURSIVE bigScale(_, _, _)
\* x * m + carry for a digit m
bigScale(x, m, carry) ==
    IF x = <<>> THEN (IF carry = 0 THEN <<>> ELSE <<carry>>)
    ELSE LET t == Head(x) * m + carry
         IN  <<t % Limb>> \o bigScale(Tail(x), m, t \div Limb)

RECURSIVE bigAdd(_, _, _)
bigAdd(x, y, carry) ==
    IF x = <<>> /\ y = <<>> THEN (IF carry = 0 THEN <<>> ELSE <<carry>>)
    ELSE LET t == (IF x = <<>> THEN 0 ELSE Head(x)) + (IF y = <<>> THEN 0 ELSE Head(y))
                  + carry
         IN  <<t % Limb>> \o bigAdd(IF x = <<>> THEN <<>> ELSE Tail(x),
                                    IF y = <<>> THEN <<>> ELSE Tail(y), t \div Limb)

RECURSIVE bigMul(_, _)
bigMul(x, y) ==
    IF y = <<>> THEN <<>>
    ELSE bigAdd(bigScale(x, Head(y), 0), <<0>> \o bigMul(x, Tail(y)), 0)

bigDigit(x, i) == IF i <= Len(x) THEN x[i] ELSE 0

RECURSIVE bigLessFrom(_, _, _)
bigLessFrom(x, y, i) ==
    IF i = 0 THEN FALSE
    ELSE IF bigDigit(x, i) # bigDigit(y, i) THEN bigDigit(x, i) < bigDigit(y, i)
    ELSE bigLessFrom(x, y, i - 1)

bigLess(x, y) == bigLessFrom(x, y, Max(Len(x), Len(y)))

\* A real number sign * sqrt(num / den), num and den naturals of any size,
\* den > 0: the values a normalized correlation and the constants it is
\* compared with can take.
rootOf(n, d) == [isNaN |-> FALSE, negative |-> FALSE, num |-> n, den |-> d]
rootOfQ(a, b) == rootOf(bigMul(bigOf(a), bigOf(a)), bigMul(bigOf(b), bigOf(b)))
rootNaN == [isNaN |-> TRUE, negative |-> FALSE, num |-> bigOf(0), den |-> bigOf(1)]
rootMinusOne == [isNaN |-> FALSE, negative |-> TRUE, num |-> bigOf(1), den |-> bigOf(1)]

\* x > y as JavaScript evaluates it: false when either is NaN
rootGt(x, y) ==
    IF x.isNaN \/ y.isNaN THEN FALSE
    ELSE IF x.negative /\ y.negative
         THEN bigLess(bigMul(x.num, y.den), bigMul(y.num, x.den))
    ELSE IF x.negative THEN FALSE
    ELSE IF y.negative THEN TRUE
    ELSE bigLess(bigMul(y.num, x.den), bigMul(x.num, y.den))

\* Math.round of the quotient n / d, n >= 0, d > 0: floor(n/d + 1/2)
RoundQ(n, d) == (2 * n + d) \div (2 * d)

-----------------------------------------------------------------------------
(* extractTempo and its helpers *)

downsampleFactor == 4
historySize == 43

\* const downsampledData: downsampledData[i] = channelData[i * downsampleFactor]
downsample(data) ==
    LET downsampledLength == Len(data) \div downsampleFactor
    IN  [i \in 0 .. downsampledLength - 1 |-> data[i * downsampleFactor + 1]]

dataLength(d) == Cardinality(DOMAIN d)

\* the loop of extractTempo that fills downsampledData, writing into the
\* channel buffer itself
channelDataAfterDownsample_inPlace(data) ==
    LET downsampledLength == Len(data) \div downsampleFactor
    IN  [n \in 1 .. Len(data) |->
            IF n <= downsampledLength THEN data[(n - 1) * downsampleFactor + 1] ELSE data[n]]

\* channelData after the loop of extractTempo that fills downsampledData:
\* the loop assigns downsampledData[i], a new Float32Array, and only reads
\* channelData
channelDataAfterDownsample(data) ==
    [n \in 1 .. Len(data) |-> data[n]]

\* const windowSizes: floor(sampleRate / 4 / 4), floor(sampleRate / 8 / 4),
\* floor(sampleRate / 16 / 4)
windowSizes(sr) ==
    << sr \div (4 * downsampleFactor),
       sr \div (8 * downsampleFactor),
       sr \div (16 * downsampleFactor) >>

\* windowEnergy * windowSize of the window that starts at index i
windowEnergySum(d, i, windowSize) ==
    SumRange([j \in 0 .. windowSize - 1 |-> Abs(d[i + j])], 0, windowSize - 1)

\* the statistics behind baseThreshold = signalMean + signalStd * 1.5:
\* the number n, the sum S and the sum of squares Q of the downsampled samples
baseThreshold(d) ==
    LET n == dataLength(d)
    IN  [n |-> n,
         S |-> SumRange(d, 0, n - 1),
         Q |-> SumRange([j \in 0 .. n - 1 |-> d[j] * d[j]], 0, n - 1)]

\* windowEnergy > baseThreshold for windowEnergy = E / windowSize:
\* E/w - S/n > 1.5 * sqrt(n*Q - S*S) / n
aboveBaseThreshold(E, windowSize, base) ==
    LET X == E * base.n - base.S * windowSize
    IN  /\ X > 0
        /\ 4 * X * X > 9 * windowSize * windowSize * (base.n * base.Q - base.S * base.S)

\* the loop variable i of detectOnsets takes the values k * hopSize < length - windowSize
onsetLoopCount(length, windowSize, hopSize) ==
    IF length - windowSize <= 0 THEN 0
    ELSE (length - windowSize + hopSize - 1) \div hopSize

\* for (let i = 0; i < signal.length - windowSize; i += hopSize) never ends
onsetLoopHangs(length, windowSize, hopSize) ==
    hopSize = 0 /\ 0 < length - windowSize

\* the indices i that detectOnsets pushes (as i / originalSampleRate), in order
detectOnsets(d, windowSize, hopSize, base) ==
    LET K == onsetLoopCount(dataLength(d), windowSize, hopSize)
        energy == [k \in 0 .. K - 1 |-> windowEnergySum(d, k * hopSize, windowSize)]
        \* energyHistory after the push and shift of iteration k
        histLo(k) == Max(0, k - historySize + 1)
        isOnset(k) ==
            LET histLen == k - histLo(k) + 1
                histSum == SumRange(energy, histLo(k), k)
                last3Lo == Max(histLo(k), k - 2)
                last3Len == k - last3Lo + 1
                last3Sum == SumRange(energy, last3Lo, k)
            IN  \* windowEnergy > Math.max(baseThreshold, localMean * 1.5)
                /\ aboveBaseThreshold(energy[k], windowSize, base)
                /\ 2 * energy[k] * histLen > 3 * histSum
                \* windowEnergy > calculateMean(energyHistory.slice(-3)) * 1.2
                /\ 5 * energy[k] * last3Len > 6 * last3Sum
        ks == {k \in 0 .. K - 1 : isOnset(k)}
        \* the k-th smallest element of ks
        nth[n \in 1 .. Cardinality(ks)] ==
            CHOOSE k \in ks : Cardinality({m \in ks : m < k}) = n - 1
    IN  [n \in 1 .. Cardinality(ks) |-> nth[n] * hopSize]

\* 60 / interval of two onsets di indices apart, interval = di / (sampleRate * 4),
\* as the quotient <<num, den>>
intervalBpm(di, sr) == << 60 * sr * downsampleFactor, di >>

\* bpmInRange without its upper limit
bpmInRange_noUpperLimit(q) == QGe(q, <<40, 1>>)

\* if (bpm >= 40 && bpm <= 200)
bpmInRange(q) == QGe(q, <<40, 1>>) /\ QGe(<<200, 1>>, q)

\* Math.round(bpm / 5) * 5
roundedBpm(q) == RoundQ(q[1], 5 * q[2]) * 5

\* calculateTempoFromOnsets: [tempo, confidence = <<maxCount, intervals.length>>]
calculateTempoFromOnsets(onsets, sr) ==
    LET nIntervals == Len(onsets) - 1
        bpm(i) == intervalBpm(onsets[i + 1] - onsets[i], sr)
        kept == {i \in 1 .. nIntervals : bpmInRange(bpm(i))}
        count(b) == Cardinality({i \in kept : roundedBpm(bpm(i)) = b})
        \* Map iteration is insertion order: a bin is met at its first interval
        first(b) == CHOOSE i \in kept :
                        /\ roundedBpm(bpm(i)) = b
                        /\ \A j \in kept : roundedBpm(bpm(j)) = b => i <= j
        bins == {roundedBpm(bpm(i)) : i \in kept}
        maxCount == IF bins = {} THEN 0
                    ELSE CHOOSE c \in {count(b) : b \in bins} :
                             \A b \in bins : count(b) <= c
        winner == CHOOSE b \in bins :
                      /\ count(b) = maxCount
                      /\ \A b2 \in bins : count(b2) = maxCount => first(b) <= first(b2)
    IN  [tempo |-> IF bins = {} THEN 120 ELSE winner,
         confidence |-> <<maxCount, nIntervals>>]

noEstimate == [present |-> FALSE, tempo |-> 120, confidence |-> <<0, 1>>]

\* one pass of the loop that keeps the estimate whose bin holds more
\* intervals, in place of the estimate of higher confidence
tempoWindowPass_mostIntervals(st, d, sr, windowSize) ==
    LET hopSize == windowSize \div 2
        onsets == detectOnsets(d, windowSize, hopSize, baseThreshold(d))
        est == IF Len(onsets) >= 2
               THEN [present |-> TRUE] @@ calculateTempoFromOnsets(onsets, sr)
               ELSE noEstimate
    IN  IF est.present /\ est.confidence[1] > st.maxConfidence[1]
        THEN [bestTempo |-> est.tempo, maxConfidence |-> est.confidence, estimate |-> est]
        ELSE [bestTempo |-> st.bestTempo, maxConfidence |-> st.maxConfidence,
              estimate |-> est]

\* one pass of the loop that keeps every estimate made from two or more
\* onsets, without comparing confidences
tempoWindowPass_unguarded(st, d, sr, windowSize) ==
    LET hopSize == windowSize \div 2
        onsets == detectOnsets(d, windowSize, hopSize, baseThreshold(d))
        est == IF Len(onsets) >= 2
               THEN [present |-> TRUE] @@ calculateTempoFromOnsets(onsets, sr)
               ELSE noEstimate
    IN  IF est.present
        THEN [bestTempo |-> est.tempo, maxConfidence |-> est.confidence, estimate |-> est]
        ELSE [bestTempo |-> st.bestTempo, maxConfidence |-> st.maxConfidence,
              estimate |-> est]

\* one pass of: for (const windowSize of windowSizes) { ... }
\* st = [bestTempo, maxConfidence]; gives the new st and the estimate made
tempoWindowPass(st, d, sr, windowSize) ==
    LET hopSize == windowSize \div 2
        onsets == detectOnsets(d, windowSize, hopSize, baseThreshold(d))
        est == IF Len(onsets) >= 2
               THEN [present |-> TRUE] @@ calculateTempoFromOnsets(onsets, sr)
               ELSE noEstimate
    IN  IF est.present /\ QGt(est.confidence, st.maxConfidence)
        THEN [bestTempo |-> est.tempo, maxConfidence |-> est.confidence, estimate |-> est]
        ELSE [bestTempo |-> st.bestTempo, maxConfidence |-> st.maxConfidence,
              estimate |-> est]

\* the detectOnsets call of window size number k never returns
tempoHangs(d, sr, k) ==
    LET w == windowSizes(sr)[k]
    IN  onsetLoopHangs(dataLength(d), w, w \div 2)

\* extractTempo as a whole: "hang" when a detectOnsets loop never ends,
\* else Math.round(bestTempo)
RECURSIVE tempoPasses(_, _, _, _)
tempoPasses(st, d, sr, k) ==
    IF k > 3 THEN RoundQ(st.bestTempo, 1)
    ELSE IF tempoHangs(d, sr, k) THEN "hang"
    ELSE tempoPasses(tempoWindowPass(st, d, sr, windowSizes(sr)[k]), d, sr, k + 1)

extractTempo(data, sr) ==
    tempoPasses([bestTempo |-> 120, maxConfidence |-> <<0, 1>>], downsample(data), sr, 1)

-----------------------------------------------------------------------------
(* extractRms *)

rmsWindowSize == 2048

\* the loop of extractRms: [sum, count] after the windows that start below i
RECURSIVE rmsWindows(_, _, _)
rmsWindows(data, i, acc) ==
    IF i >= Len(data) THEN acc
    ELSE LET limit == Min(i + rmsWindowSize, Len(data))
             windowSum == SumRange([j \in i .. limit - 1 |-> data[j + 1] * data[j + 1]],
                                   i, limit - 1)
         IN  rmsWindows(data, i + rmsWindowSize,
                        [sum |-> acc.sum + windowSum, count |-> acc.count + (limit - i)])

\* const limit = Math.min(i + windowSize, channelData.length)
rmsWindowLimit(data, i) == Min(i + rmsWindowSize, Len(data))

\* windowSum after the inner loop: for (let j = i; j < limit; j++)
rmsWindowSum(data, i) ==
    SumRange([j \in i .. rmsWindowLimit(data, i) - 1 |-> data[j + 1] * data[j + 1]],
             i, rmsWindowLimit(data, i) - 1)

\* a loop that starts the next window inside the one just summed
rmsNextStart_overlapping(i) == i + rmsWindowSize \div 2

\* i += windowSize
rmsNextStart(i) == i + rmsWindowSize

\* extractRms: Math.sqrt(sum / count) is kept as its square sum / count, in
\* units of 1 / AmpScale^2; 0 / 0 is NaN
extractRms(data) ==
    LET acc == rmsWindows(data, 0, [sum |-> 0, count |-> 0])
    IN  [isNaN |-> acc.count = 0, sum |-> acc.sum, count |-> acc.count]

\* rms = 0
rmsIsZero(r) == ~r.isNaN /\ r.sum = 0

-----------------------------------------------------------------------------
(* extractPitch and its helpers *)

\* The raised-cosine taper 0.5 * (1 - cos(2 pi i / M)) = sin(pi i / M)^2 is
\* computed in fixed point: sin(pi t) by Bhaskara's rational approximation
\* 16 t (1 - t) / (5 - 4 t (1 - t)), rounded down to a multiple of
\* 1 / WinScale.  hannWeight is the multiplier times WinScale^2.
WinScale == 16

sinFixed(i, M) ==
    IF M <= 0 THEN 0
    ELSE (16 * i * (M - i) * WinScale) \div (5 * M * M - 4 * i * (M - i))

hannWeight(i, M) == sinFixed(i, M) * sinFixed(i, M)

\* channelData.slice(start, end), 0-based, end exclusive, as a 0-based array
slice(data, start, end) ==
    LET lo == Min(Max(start, 0), Len(data))
        hi == Min(Max(end, lo), Len(data))
    IN  [i \in 0 .. hi - lo - 1 |-> data[lo + i + 1]]

\* applyHanningWindow: windowedSignal[i] = signal[i] * multiplier, the
\* multiplier over signal.length - 1; in units of 1 / (AmpScale * WinScale^2)
applyHanningWindow(signal) ==
    LET N == dataLength(signal)
    IN  [i \in 0 .. N - 1 |-> signal[i] * hannWeight(i, N - 1)]

minLag == 20

\* the lagged product sum and the energy sum of autocorrelationPitch
lagCorrelation(s, lag) ==
    LET N == dataLength(s)
    IN  SumRange([i \in 0 .. N - lag - 1 |-> s[i] * s[i + lag]], 0, N - lag - 1)

lagEnergy(s, lag) ==
    LET N == dataLength(s)
    IN  SumRange([i \in 0 .. N - lag - 1 |-> s[i] * s[i]], 0, N - lag - 1)

\* correlations[lag] = signalEnergy > 0 ? correlation / signalEnergy : 0
normalizedCorrelation(s, lag) ==
    LET signalEnergy == lagEnergy(s, lag)
    IN  IF signalEnergy > 0 THEN <<lagCorrelation(s, lag), signalEnergy>> ELSE <<0, 1>>

correlationsOf(s) ==
    [lag \in 0 .. dataLength(s) - 1 |-> normalizedCorrelation(s, lag)]

\* maxLag: the first lag > 20 whose correlation exceeds 0 and every earlier
\* one, and is not exceeded later; 0 when there is none
maxLagOf(corr) ==
    LET N == dataLength(corr)
        cands == {lag \in minLag + 1 .. N - 1 :
                     /\ QGt(corr[lag], <<0, 1>>)
                     /\ \A l2 \in minLag + 1 .. N - 1 :
                            /\ l2 < lag => QGt(corr[lag], corr[l2])
                            /\ l2 > lag => QGe(corr[lag], corr[l2])}
    IN  IF cands = {} THEN 0 ELSE CHOOSE lag \in cands : TRUE

noPitch == [pitch |-> <<0, 1>>, isNull |-> TRUE, clarity |-> <<0, 1>>]

\* frequencyInRange without its upper limit
frequencyInRange_noUpperLimit(sr, lag) == 20 * lag <= sr

\* fundamentalFreq >= 20 && fundamentalFreq <= 2000 for sampleRate / maxLag
frequencyInRange(sr, lag) == 20 * lag <= sr /\ sr <= 2000 * lag

\* autocorrelationPitch after the loop over the lags has filled correlations
\* (corr): { pitch, clarity }; pitch = sampleRate / maxLag
autocorrelationPitch(corr, sr) ==
    LET maxLag == maxLagOf(corr)
        clarity == IF maxLag = 0 THEN <<0, 1>> ELSE corr[maxLag]
    IN  IF maxLag > 0 /\ frequencyInRange(sr, maxLag) /\ QGt(clarity, <<3, 10>>)
        THEN [pitch |-> <<sr, maxLag>>, isNull |-> FALSE, clarity |-> clarity]
        ELSE noPitch

pitchWindowSizes == <<2048, 4096>>
numSegments == 3

\* the windowed segment of pass n = 0 .. 5 of the two loops of extractPitch
pitchSegment(data, n) ==
    LET windowSize == pitchWindowSizes[(n \div numSegments) + 1]
        i == n % numSegments
        startIndex == (Len(data) * i) \div numSegments
    IN  applyHanningWindow(slice(data, startIndex, startIndex + windowSize))

\* pitchCandidates.push({ pitch, clarity }) of every candidate that
\* autocorrelationPitch returns, whatever its clarity
pushCandidate_anyClarity(cands, r) ==
    IF ~r.isNull /\ r.pitch[1] > 0
    THEN Append(cands, [pitch |-> r.pitch, clarity |-> r.clarity])
    ELSE cands

\* if (pitch && clarity > 0.5) pitchCandidates.push({ pitch, clarity })
pushCandidate(cands, r) ==
    IF ~r.isNull /\ r.pitch[1] > 0 /\ QGt(r.clarity, <<1, 2>>)
    THEN Append(cands, [pitch |-> r.pitch, clarity |-> r.clarity])
    ELSE cands

\* the position of candidate i after the stable sort by descending clarity
clarityRank(cands, i) ==
    Cardinality({j \in 1 .. Len(cands) :
                    \/ QGt(cands[j].clarity, cands[i].clarity)
                    \/ (QEq(cands[j].clarity, cands[i].clarity) /\ j < i)})

\* getMedian of the pitches of the candidates top (a set of indices), rounded:
\* Math.round(medianPitch)
roundedMedian(cands, top) ==
    LET n == Cardinality(top)
        \* position in the ascending sort of the pitches
        pos(i) == Cardinality({j \in top :
                      \/ QGt(cands[i].pitch, cands[j].pitch)
                      \/ (QEq(cands[i].pitch, cands[j].pitch) /\ j < i)})
        at(k) == cands[CHOOSE i \in top : pos(i) = k].pitch
        middle == n \div 2
    IN  IF n % 2 = 0
        THEN LET a == at(middle - 1)
                 b == at(middle)
             IN  RoundQ(a[1] * b[2] + b[1] * a[2], 2 * a[2] * b[2])
        ELSE RoundQ(at(middle)[1], at(middle)[2])

\* the tail of extractPitch: the rounded median of the (at most 5) clearest
\* candidates, or null
pitchResult(cands) ==
    IF Len(cands) > 0
    THEN LET top == {i \in 1 .. Len(cands) : clarityRank(cands, i) < 5}
         IN  [isNull |-> FALSE, hz |-> roundedMedian(cands, top)]
    ELSE [isNull |-> TRUE, hz |-> 0]

RECURSIVE pitchPasses(_, _, _, _)
pitchPasses(data, sr, n, cands) ==
    IF n >= Len(pitchWindowSizes) * numSegments THEN cands
    ELSE pitchPasses(data, sr, n + 1,
                     pushCandidate(cands,
                         autocorrelationPitch(correlationsOf(pitchSegment(data, n)), sr)))

extractPitch(data, sr) == pitchResult(pitchPasses(data, sr, 0, <<>>))

-----------------------------------------------------------------------------
(* extractTimbre and its helpers.                                          *)
(*                                                                         *)
(* A JavaScript value is a record of its kind and its own properties.  A  *)
(* number is kept by its kind only: "number" is a finite number, "NaN" is  *)
(* NaN.  The kinds decide which properties exist and which reads throw,    *)
(* which is what the control flow of extractTimbre depends on.             *)

fftSize == 2048
timbreHopSize == fftSize \div 4

noProps == [k \in {} |-> {}]
jsValue(kind) == [kind |-> kind, props |-> noProps]
jsObject(props) == [kind |-> "object", props |-> props]
jsNumber == jsValue("number")
jsNaN == jsValue("NaN")
jsUndefined == jsValue("undefined")

noObject == jsUndefined
notReturned == [status |-> "none", value |-> jsUndefined, error |-> ""]
returned(v) == [status |-> "returned", value |-> v, error |-> ""]
threw(e) == [status |-> "threw", value |-> jsUndefined, error |-> e]

\* reading a property of v throws a TypeError
readThrows(v) == v.kind \in {"undefined", "null"}

\* v[name] where v is not undefined or null: undefined when there is no such
\* property
prop(v, name) == IF name \in DOMAIN v.props THEN v.props[name] ELSE jsUndefined

\* the kind of an arithmetic expression over the given operands
arith(operands) ==
    IF \A v \in operands : v.kind = "number" THEN jsNumber ELSE jsNaN

\* if (v): a number other than 0 and NaN, or an object
truthy(v) == v.kind \notin {"undefined", "null", "NaN"}

\* calculateSpectralFeatures: the properties it returns
calculateSpectralFeatures ==
    [spectralCentroid |-> jsNumber, spectralSpread |-> jsNumber,
     spectralFlatness |-> jsNumber, spectralRolloff |-> jsNumber,
     spectralPeaks |-> jsObject([peakCount |-> jsNumber, peakSpacing |-> jsNumber,
                                 peakProminence |-> jsNumber])]

\* calculateHarmonicFeatures: harmonicContent, inharmonicity, ...peakFeatures
calculateHarmonicFeatures ==
    [harmonicContent |-> jsNumber, inharmonicity |-> jsNumber,
     peakCount |-> jsNumber, peakSpacing |-> jsNumber, peakProminence |-> jsNumber]

\* analyzeSegment: { ...spectralFeatures, ...harmonicFeatures, mfccs }
analyzeSegment ==
    jsObject(calculateSpectralFeatures @@ calculateHarmonicFeatures
             @@ [mfccs |-> jsValue("Float32Array")])

\* Array.isArray(v): false for a typed array
isArray(v) == v.kind = "Array"

\* calculateMean(values): the sum starts at 0, and 0 + v is a string unless
\* v is a number
calculateMeanKind(values) == arith(values)

\* calculateStandardDeviation(values) called without its second argument:
\* each term is value - undefined
calculateStandardDeviationKind(values) == jsNaN

\* the statistics object of a scalar feature (lines 1098-1103)
featureStatistics(values) ==
    jsObject([mean |-> calculateMeanKind(values),
              std |-> calculateStandardDeviationKind(values),
              max |-> arith(values), min |-> arith(values)])

\* calculateTimbreComplexity(features)
calculateTimbreComplexity(features) ==
    IF \E name \in {"spectralSpread", "harmonicContent", "spectralCentroid"} :
           readThrows(prop(features, name))
    THEN threw("TypeError: cannot read properties of undefined")
    ELSE returned(arith({prop(prop(features, "spectralSpread"), "std"),
                         prop(prop(features, "spectralSpread"), "mean"),
                         prop(prop(features, "harmonicContent"), "mean"),
                         prop(prop(features, "spectralCentroid"), "std"),
                         prop(prop(features, "spectralCentroid"), "mean")}))

\* calculateTemporalVariation(features): the mean of std / mean over the
\* properties whose .std is truthy; 0 / 0 when there is none
calculateTemporalVariation(features) ==
    LET used == {name \in DOMAIN features.props :
                    truthy(prop(features.props[name], "std"))}
    IN  IF used = {} THEN jsNaN
        ELSE arith(UNION {{prop(features.props[name], "std"),
                           prop(features.props[name], "mean")} : name \in used})

\* aggregateTimbreFeatures(segmentFeatures, sampleRate)
aggregateTimbreFeatures(segs) ==
    IF Len(segs) = 0
    THEN \* Object.keys(segmentFeatures[0]) of undefined
         threw("TypeError: cannot convert undefined or null to object")
    ELSE LET featureNames == DOMAIN segs[1].props
             valuesOf(name) == {prop(segs[n], name) : n \in 1 .. Len(segs)}
             features == jsObject([name \in featureNames |->
                             IF isArray(segs[1].props[name]) THEN jsValue("Array")
                             ELSE featureStatistics(valuesOf(name))])
             complexity == calculateTimbreComplexity(features)
         IN  IF complexity.status = "threw" THEN complexity
             ELSE returned(jsObject(
                 [spectralCentroid |-> prop(prop(features, "spectralCentroid"), "mean"),
                  complexity |-> complexity.value,
                  harmonicContent |-> prop(prop(features, "harmonicContent"), "mean"),
                  brightness |-> arith({prop(prop(features, "spectralRolloff"), "mean")}),
                  roughness |-> prop(prop(features, "spectralFlatness"), "mean"),
                  mfccs |-> prop(features, "mfccs"),
                  temporalVariation |-> calculateTemporalVariation(features)]))

\* calculatePeakSpacing(peaks): reads peaks.length first
calculatePeakSpacing(peaks) ==
    IF readThrows(peaks) THEN threw("TypeError: cannot read properties of undefined")
    ELSE returned(jsNumber)

\* calculateRoughness(features): calculatePeakSpacing(features.spectralPeaks)
\* comes first
calculateRoughness(features) ==
    LET peakSpacing == calculatePeakSpacing(prop(features, "spectralPeaks"))
    IN  IF peakSpacing.status = "threw" THEN peakSpacing ELSE returned(jsNumber)

\* calculateWarmth(features): arithmetic on features.spectralRolloff,
\* features.sampleRate and features.harmonicRatio
calculateWarmth(features) ==
    returned(arith({prop(features, "spectralRolloff"), prop(features, "sampleRate"),
                    prop(features, "harmonicRatio")}))

\* extractTimbre after its loop (lines 992-1009)
timbreResult(segs) ==
    LET aggregated == aggregateTimbreFeatures(segs)
        features == aggregated.value
        complexity == calculateTimbreComplexity(features)
        variation == calculateTemporalVariation(
                         jsObject([n \in 1 .. Len(segs) |-> segs[n]]))
        brightness == arith({prop(features, "spectralCentroid")})
        roughness == calculateRoughness(features)
        warmth == calculateWarmth(features)
    IN  IF aggregated.status = "threw" THEN aggregated
        ELSE IF complexity.status = "threw" THEN complexity
        ELSE IF roughness.status = "threw" THEN roughness
        ELSE returned(jsObject(
                 [complexity |-> complexity.value, variation |-> variation,
                  brightness |-> brightness, roughness |-> roughness.value,
                  warmth |-> warmth.value, features |-> features]))

\* whether the loop of extractTimbre takes the frame starting at i
timbreFrameInRange(data, i) == i < Len(data) - fftSize

\* the number of frames extractTimbre analyzes
timbreFrameCount(length) ==
    IF length - fftSize <= 0 THEN 0
    ELSE (length - fftSize + timbreHopSize - 1) \div timbreHopSize

\* extractTimbre as a whole
extractTimbre(data) ==
    timbreResult([n \in 1 .. timbreFrameCount(Len(data)) |-> analyzeSegment])

-----------------------------------------------------------------------------
(* extractKey and its helpers *)

segmentDuration == 5
maxKeySegments == 5
chromaFftSize == 4096
chromaHopSize == chromaFftSize \div 4

\* MAJOR_PROFILE and MINOR_PROFILE in hundredths
MAJOR_PROFILE == <<635, 223, 348, 233, 438, 409, 252, 519, 239, 366, 229, 288>>
MINOR_PROFILE == <<633, 268, 352, 538, 260, 353, 254, 475, 398, 269, 334, 317>>

\* The frequencies 440 * 2^((2 i - 1) / 24) Hz, i = 0 .. 11, in mHz rounded
\* down: Math.round(12 * log2(f / 440) + 69) % 12 is (9 + i) % 12 for f from
\* the i-th of them up to the next, and the same an octave up or down.
semitoneBounds ==
    <<427474, 452892, 479823, 508355, 538583, 570609,
      604539, 640487, 678572, 718922, 761672, 806963>>

\* frequency > 27.5 && frequency < 4186 for frequency = j * sampleRate / fftSize
inPianoRange(j, sr) ==
    10 * j * sr > 275 * chromaFftSize /\ j * sr < 4186 * chromaFftSize

RECURSIVE octaveUp(_, _)
\* the frequency n / d doubled until it reaches the first bound
octaveUp(n, d) ==
    IF productGt(semitoneBounds[1], d, n, 1000) THEN octaveUp(2 * n, d) ELSE n

RECURSIVE octaveDown(_, _)
\* the denominator of the frequency n / d doubled until n / d is below twice
\* the first bound
octaveDown(n, d) ==
    IF productGt(2 * semitoneBounds[1], d, n, 1000) THEN d ELSE octaveDown(n, 2 * d)

\* const pitchClass = Math.round(midiNote) % 12 for bin j
pitchClass(j, sr) ==
    LET n == octaveUp(j * sr, chromaFftSize)
        d == octaveDown(n, chromaFftSize)
        i == CHOOSE k \in 1 .. 12 :
                 /\ ~productGt(semitoneBounds[k], d, n, 1000)
                 /\ (k = 12 \/ productGt(semitoneBounds[k + 1], d, n, 1000))
    IN  (9 + i - 1) % 12

\* magnitudes[j] of the chunk starting at i: |chunk[j] * window[j]|, in units
\* of 1 / (AmpScale * WinScale^2)
chromaMagnitude(signal, i, j) == Abs(signal[i + j]) * hannWeight(j, chromaFftSize)

RECURSIVE activeBins(_, _, _, _)
\* the bins j in lo .. hi of the chunk starting at i with magnitudes[j] # 0,
\* in order: the other bins add 0 to the chromagram
activeBins(signal, i, lo, hi) ==
    IF lo > hi THEN <<>>
    ELSE IF lo = hi THEN (IF signal[i + lo] # 0 /\ hannWeight(lo, chromaFftSize) # 0
                          THEN <<lo>> ELSE <<>>)
    ELSE LET mid == (lo + hi) \div 2
         IN  activeBins(signal, i, lo, mid) \o activeBins(signal, i, mid + 1, hi)

\* what the bins of the chunk starting at i add to chromagram[c]
chromaFrame(signal, i, sr, c, bins) ==
    SumRange([k \in 1 .. Len(bins) |->
                 IF inPianoRange(bins[k], sr) /\ pitchClass(bins[k], sr) = c
                 THEN chromaMagnitude(signal, i, bins[k]) ELSE 0],
             1, Len(bins))

\* what the chunk starting at i adds to each pitch class; pitch class c is
\* element c + 1
chromaOfFrame(signal, i, sr) ==
    LET bins == activeBins(signal, i, 0, chromaFftSize \div 2 - 1)
    IN  tabulate(LAMBDA c : chromaFrame(signal, i, sr, c, bins), 0, 11)

addArrays(a, b) == tabulate(LAMBDA k : a[k] + b[k], 1, Len(a))

RECURSIVE chromaSums(_, _, _, _)
\* chromagram before it is normalized, over the chunks from i on
chromaSums(signal, i, sr, acc) ==
    IF i >= dataLength(signal) - chromaFftSize THEN acc
    ELSE chromaSums(signal, i + chromaHopSize, sr,
                    addArrays(acc, chromaOfFrame(signal, i, sr)))

\* calculateChromagram: chromagram[c] is sums[c + 1] / total when total > 0,
\* kept as its numerator and the common denominator
calculateChromagram(signal, sr) ==
    LET sums == chromaSums(signal, 0, sr, <<0, 0, 0, 0, 0, 0, 0, 0, 0, 0, 0, 0>>)
        total == SumRange(sums, 1, 12)
    IN  [sums |-> sums, total |-> IF total > 0 THEN total ELSE 1]

\* correlateProfiles(chroma, profile, root): correlation / sqrt(profileSum *
\* chromaSum), which does not depend on the common denominator of chroma;
\* 0 / 0 is NaN
correlateProfiles(chroma, profile, root) ==
    LET profileVal(i) == profile[((i - root + 12) % 12) + 1]
        correlation == SumRange([i \in 0 .. 11 |-> chroma.sums[i + 1] * profileVal(i)], 0, 11)
        profileSum == SumRange([i \in 0 .. 11 |-> profileVal(i) * profileVal(i)], 0, 11)
        chromaSum == SumRange([i \in 0 .. 11 |-> chroma.sums[i + 1] * chroma.sums[i + 1]],
                              0, 11)
    IN  IF chromaSum = 0 THEN rootNaN
        ELSE rootOf(bigMul(bigOf(correlation), bigOf(correlation)),
                    bigMul(bigOf(profileSum), bigOf(chromaSum)))

\* Math.min(a, b) and Math.max(a, b) of two numbers that are not NaN
rootMin(a, b) == IF rootGt(a, b) THEN b ELSE a
rootMax(a, b) == IF rootGt(b, a) THEN b ELSE a

\* let maxCorrelation = -1, bestKey = 0, bestScale = 'major'
noBestKey == [maxCorrelation |-> rootMinusOne, bestKey |-> 0, bestScale |-> "major"]

\* step k of the loop of detectKey on its own: step 2 * root tries the major
\* profile of root, step 2 * root + 1 the minor one
keyCandidate(chroma, k) ==
    LET corr == correlateProfiles(chroma,
                    IF k % 2 = 0 THEN MAJOR_PROFILE ELSE MINOR_PROFILE, k \div 2)
    IN  IF rootGt(corr, noBestKey.maxCorrelation)
        THEN [maxCorrelation |-> corr, bestKey |-> k \div 2,
              bestScale |-> IF k % 2 = 0 THEN "major" ELSE "minor"]
        ELSE noBestKey

RECURSIVE detectKeyIn(_, _, _)
\* maxCorrelation, bestKey and bestScale after the steps lo .. hi of the loop
\* of detectKey: a later step replaces an earlier one only with a larger
\* correlation; the range is halved to keep the evaluation shallow
detectKeyIn(chroma, lo, hi) ==
    IF lo = hi THEN keyCandidate(chroma, lo)
    ELSE LET mid == (lo + hi) \div 2
             earlier == detectKeyIn(chroma, lo, mid)
             later == detectKeyIn(chroma, mid + 1, hi)
         IN  IF rootGt(later.maxCorrelation, earlier.maxCorrelation) THEN later ELSE earlier

\* the confidence detectKey derives from maxCorrelation
keyConfidence(maxCorrelation) == rootMax(rootOfQ(3, 10), rootMin(rootOfQ(1, 1), maxCorrelation))

\* detectKey with the loop over the roots ended after root 5
detectKey_sixRoots(chroma) ==
    LET best == detectKeyIn(chroma, 0, 11)
    IN  [root |-> best.bestKey, scale |-> best.bestScale,
         confidence |-> keyConfidence(best.maxCorrelation),
         correlation |-> best.maxCorrelation]

detectKey(chroma) ==
    LET best == detectKeyIn(chroma, 0, 23)
    IN  [root |-> best.bestKey, scale |-> best.bestScale,
         confidence |-> keyConfidence(best.maxCorrelation),
         correlation |-> best.maxCorrelation]

\* A confidence of combineKeyResults: share[1] / share[2] + conf
sumConfidence(share, conf) == [share |-> share, conf |-> conf]
zeroRoot == rootOfQ(0, 1)

\* share + conf > 1
exceedsOne(c) ==
    \/ c.share[1] > c.share[2]
    \/ rootGt(c.conf, rootOfQ(c.share[2] - c.share[1], c.share[2]))

\* Math.min(maxCount / results.length + bestResult.confidence, 1)
combinedConfidence_unclamped(maxCount, n, confidence) ==
    sumConfidence(<<maxCount, n>>, confidence)

combinedConfidence(maxCount, n, confidence) ==
    IF exceedsOne(sumConfidence(<<maxCount, n>>, confidence))
    THEN sumConfidence(<<1, 1>>, zeroRoot)
    ELSE sumConfidence(<<maxCount, n>>, confidence)

noKeyResult ==
    [present |-> FALSE, root |-> 0, scale |-> "major", confidence |-> zeroRoot,
     correlation |-> zeroRoot]

RECURSIVE combineFrom(_, _, _)
\* results.forEach of combineKeyResults from result k on
combineFrom(results, k, st) ==
    IF k > Len(results) THEN st
    ELSE LET result == results[k]
             keyName == <<result.root, result.scale>>
             count == (IF keyName \in DOMAIN st.keyCount THEN st.keyCount[keyName] ELSE 0) + 1
             keyCount == [x \in DOMAIN st.keyCount \cup {keyName} |->
                             IF x = keyName THEN count ELSE st.keyCount[x]]
             bestCorrelation == IF st.bestResult.present THEN st.bestResult.correlation
                                ELSE zeroRoot
         IN  combineFrom(results, k + 1,
                 IF count > st.maxCount \/
                    (count = st.maxCount /\ rootGt(result.correlation, bestCorrelation))
                 THEN [keyCount |-> keyCount, maxCount |-> count,
                       bestResult |-> [present |-> TRUE] @@ result]
                 ELSE [keyCount |-> keyCount, maxCount |-> st.maxCount,
                       bestResult |-> st.bestResult])

\* combineKeyResults(results): bestResult is null when there is no result
combineKeyResults(results) ==
    LET st == combineFrom(results, 1,
                  [keyCount |-> [x \in {} |-> 0], maxCount |-> 0, bestResult |-> noKeyResult])
    IN  IF ~st.bestResult.present
        THEN threw("TypeError: cannot read properties of null")
        ELSE returned([root |-> st.bestResult.root, scale |-> st.bestResult.scale,
                       correlation |-> st.bestResult.correlation,
                       confidence |-> combinedConfidence(st.maxCount, Len(results),
                                                         st.bestResult.confidence)])

\* const segmentLength
keySegmentLength(data, sr) == Min(sr * segmentDuration, Len(data))

\* const numSegments: Math.floor(0 / 0) is NaN, and the loop does not run
keyNumSegments(data, sr) ==
    IF keySegmentLength(data, sr) = 0 THEN 0
    ELSE Min(maxKeySegments, Len(data) \div keySegmentLength(data, sr))

\* the segment of pass i: with one segment startIndex is NaN (i / 0 for
\* i = 0) and slice(NaN, NaN) is empty
keySegment(data, sr, i) ==
    LET n == keyNumSegments(data, sr)
        len == keySegmentLength(data, sr)
        startIndex == ((Len(data) - len) * i) \div (n - 1)
    IN  IF n = 1 THEN slice(data, 0, 0)
        ELSE slice(data, startIndex, startIndex + len)

\* extractKey as a whole
extractKey(data, sr) ==
    combineKeyResults(
        tabulate(LAMBDA i : detectKey(calculateChromagram(keySegment(data, sr, i), sr)),
                 0, keyNumSegments(data, sr) - 1))

-----------------------------------------------------------------------------
(* extractMood, classifyMoodML and their helpers.                          *)
(*                                                                         *)
(* A number here is NaN or an exact quotient <<num, den>>, den > 0.        *)

RECURSIVE gcd(_, _)
gcd(a, b) == IF b = 0 THEN a ELSE gcd(b, a % b)

\* the quotient n / d in lowest terms
reduced(n, d) == LET g == gcd(Abs(n), d) IN <<n \div g, d \div g>>

numberOf(n, d) == [isNaN |-> FALSE, q |-> reduced(n, d)]
numberNaN == [isNaN |-> TRUE, q |-> <<0, 1>>]

numAdd(x, y) ==
    IF x.isNaN \/ y.isNaN THEN numberNaN
    ELSE numberOf(x.q[1] * y.q[2] + y.q[1] * x.q[2], x.q[2] * y.q[2])
numSub(x, y) ==
    IF x.isNaN \/ y.isNaN THEN numberNaN
    ELSE numberOf(x.q[1] * y.q[2] - y.q[1] * x.q[2], x.q[2] * y.q[2])
numMul(x, y) ==
    IF x.isNaN \/ y.isNaN THEN numberNaN
    ELSE numberOf(x.q[1] * y.q[1], x.q[2] * y.q[2])
numHalf(x) == numMul(x, numberOf(1, 2))

\* x > y and x < y: false when either is NaN
numGt(x, y) == ~x.isNaN /\ ~y.isNaN /\ x.q[1] * y.q[2] > y.q[1] * x.q[2]
numLt(x, y) == numGt(y, x)

\* Math.min(x, y) and Math.max(x, y): NaN when either is NaN
numMin(x, y) == IF x.isNaN \/ y.isNaN THEN numberNaN ELSE IF numGt(x, y) THEN y ELSE x
numMax(x, y) == IF x.isNaN \/ y.isNaN THEN numberNaN ELSE IF numGt(y, x) THEN y ELSE x

tenths(n) == numberOf(n, 10)
one == numberOf(1, 1)
zero == numberOf(0, 1)

\* the primary color of each entry of GENRE_COLOR_MAPPINGS
GENRE_COLOR_MAPPINGS ==
    [classical |-> [h |-> 280, s |-> 60, l |-> 50],
     jazz |-> [h |-> 220, s |-> 70, l |-> 40],
     rock |-> [h |-> 0, s |-> 80, l |-> 40],
     electronic |-> [h |-> 180, s |-> 100, l |-> 50],
     folk |-> [h |-> 30, s |-> 60, l |-> 45]]

\* CULTURAL_MOOD_MAPPINGS.western
westernMoods ==
    [happy |-> [h |-> 60, s |-> 100, l |-> 50],
     sad |-> [h |-> 230, s |-> 60, l |-> 40],
     peaceful |-> [h |-> 180, s |-> 40, l |-> 80],
     angry |-> [h |-> 0, s |-> 100, l |-> 40]]

\* normalizedFeatures.tempo without its clamp, as classifyMoodML computes it
normalizedTempo(tempoArg) == numMul(numSub(tempoArg, numberOf(40, 1)), numberOf(1, 200 - 40))

\* normalizedFeatures.loudness
normalizedLoudness_unclamped(rmsArg) == numMul(rmsArg, numberOf(2, 1))

normalizedLoudness(rmsArg) == numMin(numMul(rmsArg, numberOf(2, 1)), one)

\* const normalizedFeatures of classifyMoodML
normalize(features) ==
    [tempo |-> normalizedTempo(features.tempo),
     loudness |-> normalizedLoudness(features.rms),
     complexity |-> features.timbre.complexity,
     brightness |-> features.timbre.brightness,
     roughness |-> features.timbre.roughness,
     warmth |-> features.timbre.warmth,
     isMinor |-> IF features.key.scale = "minor" THEN one ELSE zero,
     keyConfidence |-> features.key.confidence]

calculateArousal(f) ==
    numAdd(numAdd(numAdd(numMul(f.tempo, tenths(3)), numMul(f.loudness, tenths(3))),
                  numMul(f.brightness, tenths(2))),
           numMul(f.roughness, tenths(2)))

calculateValence(f) ==
    numMul(numSub(one, numMul(f.isMinor, tenths(3))),
           numAdd(numAdd(numAdd(numMul(f.warmth, tenths(3)),
                                numMul(numSub(one, f.roughness), tenths(2))),
                         numMul(f.keyConfidence, tenths(2))),
                  numMul(numSub(one, f.complexity), tenths(3))))

calculateDominance(f) ==
    numAdd(numAdd(numMul(f.loudness, tenths(4)), numMul(f.complexity, tenths(3))),
           numMul(f.roughness, tenths(3)))

\* the rules of mapToEmotionalState with the dominance rules tried first
mapToEmotionalState_dominanceFirst(arousal, valence, dominance) ==
    IF numGt(dominance, tenths(7))
    THEN (IF numGt(valence, tenths(5)) THEN "triumphant" ELSE "dominant")
    ELSE IF numLt(dominance, tenths(3))
         THEN (IF numGt(valence, tenths(5)) THEN "peaceful" ELSE "submissive")
    ELSE IF numGt(arousal, tenths(7)) /\ numGt(valence, tenths(7)) THEN "ecstatic"
    ELSE IF numGt(arousal, tenths(7)) /\ numLt(valence, tenths(3)) THEN "angry"
    ELSE IF numLt(arousal, tenths(3)) /\ numGt(valence, tenths(7)) THEN "content"
    ELSE IF numLt(arousal, tenths(3)) /\ numLt(valence, tenths(3)) THEN "depressed"
    ELSE "neutral"

mapToEmotionalState(arousal, valence, dominance) ==
    IF numGt(arousal, tenths(7)) /\ numGt(valence, tenths(7)) THEN "ecstatic"
    ELSE IF numGt(arousal, tenths(7)) /\ numLt(valence, tenths(3)) THEN "angry"
    ELSE IF numLt(arousal, tenths(3)) /\ numGt(valence, tenths(7)) THEN "content"
    ELSE IF numLt(arousal, tenths(3)) /\ numLt(valence, tenths(3)) THEN "depressed"
    ELSE IF numGt(dominance, tenths(7))
         THEN (IF numGt(valence, tenths(5)) THEN "triumphant" ELSE "dominant")
    ELSE IF numLt(dominance, tenths(3))
         THEN (IF numGt(valence, tenths(5)) THEN "peaceful" ELSE "submissive")
    ELSE "neutral"

detectGenre(features) ==
    LET tempoArg == features.tempo
        timbreArg == features.timbre
        keyArg == features.key
    IN  IF numLt(tempoArg, numberOf(85, 1)) /\ numGt(timbreArg.complexity, tenths(7))
           /\ numGt(keyArg.confidence, tenths(8)) THEN "classical"
        ELSE IF numGt(tempoArg, numberOf(120, 1)) /\ numGt(timbreArg.brightness, tenths(7))
             THEN "electronic"
        ELSE IF numGt(tempoArg, numberOf(100, 1)) /\ numGt(timbreArg.roughness, tenths(6))
             THEN "rock"
        ELSE IF numGt(timbreArg.warmth, tenths(7)) /\ numLt(timbreArg.complexity, tenths(4))
             THEN "folk"
        ELSE IF numGt(timbreArg.complexity, tenths(6)) /\ numGt(keyArg.confidence, tenths(6))
             THEN "jazz"
        ELSE "other"

mapEmotionToBasicMood(emotion) ==
    CASE emotion \in {"ecstatic", "triumphant"} -> "happy"
      [] emotion \in {"angry", "dominant"} -> "angry"
      [] emotion \in {"content", "peaceful", "neutral"} -> "peaceful"
      [] emotion \in {"depressed", "submissive"} -> "sad"
      [] OTHER -> "neutral"

blendColors(color1, color2) ==
    [h |-> numberOf(color1.h + color2.h, 2), s |-> numberOf(color1.s + color2.s, 2),
     l |-> numberOf(color1.l + color2.l, 2)]

\* GENRE_COLOR_MAPPINGS[genre] || GENRE_COLOR_MAPPINGS.other is undefined for
\* a genre without an entry, and genreColors.primary then throws
getCulturalColorMapping(emotion, genre) ==
    IF genre \notin DOMAIN GENRE_COLOR_MAPPINGS /\ "other" \notin DOMAIN GENRE_COLOR_MAPPINGS
    THEN threw("TypeError: cannot read properties of undefined")
    ELSE LET genreColors == IF genre \in DOMAIN GENRE_COLOR_MAPPINGS
                            THEN GENRE_COLOR_MAPPINGS[genre]
                            ELSE GENRE_COLOR_MAPPINGS["other"]
         IN  returned([genre |-> genreColors,
                       western |-> westernMoods[mapEmotionToBasicMood(emotion)],
                       combined |-> blendColors(genreColors,
                                        westernMoods[mapEmotionToBasicMood(emotion)])])

classifyMoodML(features) ==
    LET f == normalize(features)
        arousal == calculateArousal(f)
        valence == calculateValence(f)
        dominance == calculateDominance(f)
        emotionalState == mapToEmotionalState(arousal, valence, dominance)
        genre == detectGenre(features)
        culturalColors == getCulturalColorMapping(emotionalState, genre)
    IN  IF culturalColors.status = "threw" THEN culturalColors
        ELSE returned([emotional |-> emotionalState, genre |-> genre, arousal |-> arousal,
                       valence |-> valence, dominance |-> dominance,
                       culturalColors |-> culturalColors.value])

extractMood(tempoArg, rmsArg, keyArg, timbreArg) ==
    LET mlMood == classifyMoodML([tempo |-> tempoArg, rms |-> rmsArg, key |-> keyArg,
                                  timbre |-> timbreArg])
        clampedTempo == numMin(numMax(normalizedTempo(tempoArg), zero), one)
        energy == numAdd(numMul(clampedTempo, tenths(6)),
                         numMul(normalizedLoudness(rmsArg), tenths(4)))
    IN  IF mlMood.status = "threw" THEN mlMood
        ELSE returned([energy |-> energy, valence |-> mlMood.value.valence,
                       arousal |-> mlMood.value.arousal,
                       dominance |-> mlMood.value.dominance,
                       primary |-> mlMood.value.emotional, genre |-> mlMood.value.genre,
                       intensity |-> numHalf(numAdd(mlMood.value.arousal,
                                                    mlMood.value.valence)),
                       cultural |-> mlMood.value.culturalColors])

-----------------------------------------------------------------------------
(* generateBaseColor of colorMapping.js *)

\* x || fallback: 0 and NaN are falsy
orElse(x, fallback) == IF x.isNaN \/ x.q[1] = 0 THEN fallback ELSE x

\* Math.round of a number that is not NaN and not negative
roundNumber(x) == RoundQ(x.q[1], x.q[2])

\* const normalizedTempo = Math.max(minBpm, Math.min(maxBpm, bpm || 120))
clampedBpm(bpm) ==
    numMax(numberOf(40, 1), numMin(numberOf(200, 1), orElse(bpm, numberOf(120, 1))))

\* let hue, by the three tempo ranges
baseHue(bpm) ==
    LET t == clampedBpm(bpm)
    IN  IF ~numGt(t, numberOf(80, 1))
        THEN numSub(numberOf(240, 1),
                    numMul(numMul(numSub(t, numberOf(40, 1)), numberOf(1, 40)),
                           numberOf(90, 1)))
        ELSE IF ~numGt(t, numberOf(120, 1))
        THEN numSub(numberOf(150, 1),
                    numMul(numMul(numSub(t, numberOf(80, 1)), numberOf(1, 40)),
                           numberOf(120, 1)))
        ELSE numSub(numberOf(30, 1),
                    numMul(numMul(numSub(t, numberOf(120, 1)), numberOf(1, 80)),
                           numberOf(30, 1)))

\* const saturation = 30 + normalizedPitch * 70
baseSaturation(pitchArg) ==
    LET normalizedPitch ==
            IF pitchArg.isNaN \/ pitchArg.q[1] = 0 THEN numberOf(1, 2)
            ELSE numMul(numSub(pitchArg, numberOf(20, 1)), numberOf(1, 2000 - 20))
    IN  numAdd(numberOf(30, 1), numMul(normalizedPitch, numberOf(70, 1)))

\* const normalizedLoudness = Math.min(1, (rms || 0.5) * 2);
\* const lightness = 30 + normalizedLoudness * 60
baseLightness(rmsArg) ==
    LET loudness == numMin(one, numMul(orElse(rmsArg, numberOf(1, 2)), numberOf(2, 1)))
    IN  numAdd(numberOf(30, 1), numMul(loudness, numberOf(60, 1)))

\* the three numbers of the string hsl(h, s%, l%) that is returned
generateBaseColor(bpm, pitchArg, rmsArg) ==
    [h |-> roundNumber(baseHue(bpm)), s |-> roundNumber(baseSaturation(pitchArg)),
     l |-> roundNumber(baseLightness(rmsArg))]

-----------------------------------------------------------------------------
(* Signals the tempo estimator is run on: trains of bursts.  A burst is     *)
(* BurstLen alternating full-scale samples of the downsampled signal; each *)
(* downsampled sample is held for downsampleFactor samples of the signal.  *)

\* at most MaxBursts bursts in a signal
MaxBursts == 3
\* distances between the starts of consecutive bursts, in downsampled samples
OnsetGaps == {100, 154, 160, 240}
BurstLens == {2, 4}
firstBurst == 10

RECURSIVE gapSeqs(_)
gapSeqs(n) ==
    IF n = 0 THEN {<<>>}
    ELSE gapSeqs(n - 1) \cup
         {Append(g, x) : g \in {h \in gapSeqs(n - 1) : Len(h) = n - 1}, x \in OnsetGaps}

\* start of burst number b (from 0) of the train with gaps g
burstStart(g, b) == firstBurst + SumRange(g, 1, b)

burstSignal(g, blen, withBurst) ==
    LET nb == IF withBurst THEN Len(g) + 1 ELSE 0
        dl == firstBurst + SumRange(g, 1, Len(g)) + blen + firstBurst
        value(k) ==
            IF \E b \in 0 .. nb - 1 : k \in burstStart(g, b) .. burstStart(g, b) + blen - 1
            THEN LET b == CHOOSE c \in 0 .. nb - 1 :
                              k \in burstStart(g, c) .. burstStart(g, c) + blen - 1
                 IN  IF (k - burstStart(g, b)) % 2 = 0 THEN AmpScale ELSE -AmpScale
            ELSE 0
    IN  [n \in 1 .. downsampleFactor * dl |-> value((n - 1) \div downsampleFactor)]

\* trains whose smaller window sizes find more onsets, and fill a bin with
\* more intervals, than the largest window size
CrowdedTrains ==
    {burstSignal(<<160, 160, 154, 160>>, 4, TRUE),
     burstSignal(<<100, 160, 160, 154, 160>>, 4, TRUE)}

TempoSignals ==
    {burstSignal(g, blen, TRUE) : g \in gapSeqs(MaxBursts - 1), blen \in BurstLens}
    \cup {burstSignal(<<>>, 2, FALSE), <<>>, <<AmpScale>>}
    \cup CrowdedTrains

TempoRates == {64, 128}

-----------------------------------------------------------------------------
(* Signals the pitch estimator is run on: at most MaxPulses non-zero       *)
(* samples, at positions that lie more than minLag apart within a segment. *)

MaxPulses == 3
PitchLens == {26, 72}
pulsePositions(N) == IF N = 26 THEN {1, 2, 22, 23, 24} ELSE {2, 25, 49, 50, 71}
pulseAmps == {1, AmpScale, -AmpScale}

\* the signals of length N whose non-zero samples are the pulses of f
pulseSignal(N, f) == [n \in 1 .. N |-> IF (n - 1) \in DOMAIN f THEN f[n - 1] ELSE 0]

\* pulses more than minLag apart inside each of the three segments of a
\* signal of 90 samples
SpreadPulses ==
    {pulseSignal(90, f) : f \in [{5, 33, 62, 85} -> {1, AmpScale}]}

PitchSignals ==
    UNION {UNION {{pulseSignal(N, f) : f \in [P -> pulseAmps]} :
                     P \in {Q \in SUBSET pulsePositions(N) : Cardinality(Q) <= MaxPulses}} :
              N \in PitchLens}
    \cup SpreadPulses

PitchRates == {420, 44100}

-----------------------------------------------------------------------------
(* SpecTempo: extractTempo, one action per pass of its loop *)

vars == <<pc, channelData, sampleRate, tempoVars, pitchVars, timbreVars, keyVars, moodVars,
          appVars, unitVars>>

\* the locals of extractTempo at its entry
tempoEntry ==
    /\ windowIdx = 1
    /\ bestTempo = 120
    /\ maxConfidence = <<0, 1>>
    /\ lastEstimate = noEstimate
    /\ tempo = 0

\* the locals of extractPitch at its entry
pitchEntry ==
    /\ pitchPass = 0
    /\ pitchCandidates = <<>>
    /\ correlations = <<>>
    /\ pitch = [isNull |-> TRUE, hz |-> 0]

\* the locals of extractTimbre at its entry
timbreEntry ==
    /\ frameStart = 0
    /\ segmentFeatures = <<>>
    /\ timbreFeatures = noObject
    /\ timbre = notReturned

\* the locals of extractKey at its entry
keyEntry ==
    /\ keyPass = 0
    /\ chromagram = calculateChromagram(slice(<<>>, 0, 0), 1)
    /\ segmentResults = <<>>
    /\ key = notReturned

noMoodArgs ==
    [tempo |-> zero, rms |-> zero, key |-> [scale |-> "major", confidence |-> zero],
     timbre |-> [complexity |-> zero, brightness |-> zero, roughness |-> zero,
                 warmth |-> zero]]

\* nothing handed to extractMood yet
moodEntry ==
    /\ moodArgs = noMoodArgs
    /\ normalizedFeatures = normalize(noMoodArgs)
    /\ mood = notReturned

noFile == [decodable |-> FALSE, channelData |-> <<>>, sampleRate |-> 0]
noFeatures == [present |-> FALSE]

\* the state of App when it is mounted: useState(null), useState(false),
\* useState(null)
appEntry ==
    /\ rms = extractRms(<<>>)
    /\ file = noFile
    /\ isLoading = FALSE
    /\ error = "null"
    /\ audioFeatures = noFeatures
    /\ notifications = <<>>
    /\ uploads = 0
    /\ called = <<>>

\* const onsetTimes = []; const energyHistory = []; let i = 0
onsetEntry ==
    /\ onsetStart = 0
    /\ energyHistory = <<>>
    /\ onsetTimes = <<>>

\* the locals of the functions that are run on their own, before the run
\* a value of calculateSpectralFlatness: scale times the root-th root of the
\* product of the factors, every factor above 0
flatnessOf(factors, scale) == [factors |-> factors, scale |-> scale]

spectralEntry ==
    spectral = [spectralCentroid |-> zero, spectralSpread |-> zeroRoot,
                spectralFlatness |-> flatnessOf(<<>>, zero),
                harmonicContent |-> zero, inharmonicity |-> zero]

\* the string `hsl(${h}, ${s}%, ${l}%)`, kept by the three numbers it is
\* formatted from; h and s are integers, l is a number
hsl(h, s, l) == [h |-> h, s |-> s, l |-> l]

\* improveColorAccessibility at its entry, after parseColor(color, 'hsl'):
\* h, s and l are the components of color
accessEntry(color, backgroundColor, targetRatio) ==
    [color |-> color, backgroundColor |-> backgroundColor, targetRatio |-> targetRatio,
     originalL |-> color.l, step |-> numberOf(5, 1), direction |-> 1]

laterEntry ==
    /\ spectralEntry
    /\ inFlight = <<>>
    /\ access = accessEntry(hsl(0, 0, zero), hsl(0, 0, numberOf(100, 1)), numberOf(9, 2))

unitEntry ==
    /\ laterEntry
    /\ rmsStart = 0
    /\ rmsSum = 0
    /\ rmsCount = 0
    /\ onsetEntry
    /\ emotionArgs = [arousal |-> zero, valence |-> zero, dominance |-> zero]
    /\ emotionLabel = "none"
    /\ colorArgs = [bpm |-> numberOf(120, 1), pitch |-> numberOf(0, 1), rms |-> zero]
    /\ baseColor = [h |-> 0, s |-> 0, l |-> 0]

TempoInit ==
    /\ pc = "tempo_loop"
    /\ channelData \in TempoSignals
    /\ sampleRate \in TempoRates
    /\ tempoEntry
    /\ pitchEntry
    /\ timbreEntry
    /\ keyEntry
    /\ moodEntry
    /\ appEntry
    /\ unitEntry

TempoWindow ==
    /\ pc = "tempo_loop"
    /\ windowIdx <= 3
    /\ ~tempoHangs(downsample(channelData), sampleRate, windowIdx)
    /\ LET r == tempoWindowPass([bestTempo |-> bestTempo, maxConfidence |-> maxConfidence],
                                downsample(channelData), sampleRate,
                                windowSizes(sampleRate)[windowIdx])
       IN  /\ bestTempo' = r.bestTempo
           /\ maxConfidence' = r.maxConfidence
           /\ lastEstimate' = r.estimate
    /\ windowIdx' = windowIdx + 1
    /\ UNCHANGED <<pc, channelData, sampleRate, tempo, pitchVars, timbreVars, keyVars,
                   moodVars, appVars, unitVars>>

TempoHang ==
    /\ pc = "tempo_loop"
    /\ windowIdx <= 3
    /\ tempoHangs(downsample(channelData), sampleRate, windowIdx)
    /\ pc' = "tempo_hung"
    /\ UNCHANGED <<channelData, sampleRate, tempoVars, pitchVars, timbreVars, keyVars,
                   moodVars, appVars, unitVars>>

TempoReturn ==
    /\ pc = "tempo_loop"
    /\ windowIdx > 3
    /\ tempo' = RoundQ(bestTempo, 1)
    /\ pc' = "tempo_done"
    /\ UNCHANGED <<channelData, sampleRate, windowIdx, bestTempo, maxConfidence,
                   lastEstimate, pitchVars, timbreVars, keyVars,
                   moodVars, appVars, unitVars>>

TempoNext == TempoWindow \/ TempoHang \/ TempoReturn

SpecTempo == TempoInit /\ [][TempoNext]_vars

-----------------------------------------------------------------------------
(* SpecPitch: extractPitch, one action per pass of its loops *)

PitchInit ==
    /\ pc = "pitch_loop"
    /\ channelData \in PitchSignals
    /\ sampleRate \in PitchRates
    /\ tempoEntry
    /\ pitchEntry
    /\ timbreEntry
    /\ keyEntry
    /\ moodEntry
    /\ appEntry
    /\ unitEntry

PitchPass ==
    /\ pc = "pitch_loop"
    /\ pitchPass < Len(pitchWindowSizes) * numSegments
    /\ LET corr == correlationsOf(pitchSegment(channelData, pitchPass))
       IN  /\ correlations' = corr
           /\ pitchCandidates' = pushCandidate(pitchCandidates,
                                               autocorrelationPitch(corr, sampleRate))
    /\ pitchPass' = pitchPass + 1
    /\ UNCHANGED <<pc, channelData, sampleRate, pitch, tempoVars, timbreVars, keyVars,
                   moodVars, appVars, unitVars>>

PitchReturn ==
    /\ pc = "pitch_loop"
    /\ pitchPass >= Len(pitchWindowSizes) * numSegments
    /\ pitch' = pitchResult(pitchCandidates)
    /\ pc' = "pitch_done"
    /\ UNCHANGED <<channelData, sampleRate, pitchPass, pitchCandidates, correlations,
                   tempoVars, timbreVars, keyVars,
                   moodVars, appVars, unitVars>>

PitchNext == PitchPass \/ PitchReturn

SpecPitch == PitchInit /\ [][PitchNext]_vars

-----------------------------------------------------------------------------
(* Claims *)

inUnitInterval(q) == QGe(q, <<0, 1>>) /\ QGe(<<1, 1>>, q)

\* C3: whenever extractTempo returns, the BPM it returns lies in [40, 200],
\* and the confidence of the estimate of every window size (count of the
\* winning bin over the number of inter-onset intervals) lies in [0, 1].
C3_TempoInRange ==
    /\ pc = "tempo_done" => tempo >= 40 /\ tempo <= 200
    /\ lastEstimate.present =>
           /\ lastEstimate.confidence[2] > 0
           /\ inUnitInterval(lastEstimate.confidence)

\* extractTempo has returned a BPM taken from a bin, and the last window
\* size had some intervals inside and some outside its winning bin
C3_Witness ==
    /\ pc = "tempo_done"
    /\ tempo # 120
    /\ lastEstimate.present
    /\ QGt(lastEstimate.confidence, <<0, 1>>)
    /\ QGt(<<1, 1>>, lastEstimate.confidence)

\* C4: whenever extractPitch returns a present (non-null) value, the value
\* lies in [20, 2000] Hz.
C4_PitchInRange ==
    pc = "pitch_done" /\ ~pitch.isNull => pitch.hz >= 20 /\ pitch.hz <= 2000

\* extractPitch has returned the median of candidates of different pitches
C4_Witness ==
    /\ pc = "pitch_done"
    /\ ~pitch.isNull
    /\ \E i, j \in 1 .. Len(pitchCandidates) :
           ~QEq(pitchCandidates[i].pitch, pitchCandidates[j].pitch)

\* C5: for every windowed segment and every lag, the normalized
\* autocorrelation lies in [0, 1], and so does the clarity of every pitch
\* candidate autocorrelationPitch returns.
C5_CorrelationInUnitInterval ==
    /\ \A lag \in DOMAIN correlations : inUnitInterval(correlations[lag])
    /\ \A i \in 1 .. Len(pitchCandidates) : inUnitInterval(pitchCandidates[i].clarity)

-----------------------------------------------------------------------------
(* SpecTimbre: extractTimbre, one action per frame of its loop *)

MaxFrames == 6
TimbreLens ==
    {0, 1} \cup {fftSize + k * timbreHopSize + r : k \in 0 .. MaxFrames - 1, r \in {0, 1}}
TimbreSignals == {[n \in 1 .. L |-> a] : L \in TimbreLens, a \in {0, 1, AmpScale}}
TimbreRates == {44100}

TimbreInit ==
    /\ pc = "timbre_loop"
    /\ channelData \in TimbreSignals
    /\ sampleRate \in TimbreRates
    /\ tempoEntry
    /\ pitchEntry
    /\ timbreEntry
    /\ keyEntry
    /\ moodEntry
    /\ appEntry
    /\ unitEntry

TimbreFrame ==
    /\ pc = "timbre_loop"
    /\ timbreFrameInRange(channelData, frameStart)
    /\ segmentFeatures' = Append(segmentFeatures, analyzeSegment)
    /\ frameStart' = frameStart + timbreHopSize
    /\ UNCHANGED <<pc, channelData, sampleRate, timbreFeatures, timbre,
                   tempoVars, pitchVars, keyVars, moodVars, appVars, unitVars>>

TimbreReturn ==
    /\ pc = "timbre_loop"
    /\ ~timbreFrameInRange(channelData, frameStart)
    /\ LET aggregated == aggregateTimbreFeatures(segmentFeatures)
       IN  timbreFeatures' = IF aggregated.status = "returned" THEN aggregated.value
                             ELSE timbreFeatures
    /\ timbre' = timbreResult(segmentFeatures)
    /\ pc' = "timbre_done"
    /\ UNCHANGED <<channelData, sampleRate, frameStart, segmentFeatures,
                   tempoVars, pitchVars, keyVars, moodVars, appVars, unitVars>>

TimbreNext == TimbreFrame \/ TimbreReturn

SpecTimbre == TimbreInit /\ [][TimbreNext]_vars

\* the five measures of a TimbreResult
timbreMeasures == {"complexity", "brightness", "warmth", "roughness", "variation"}

\* C6: once extractTimbre has finished on a signal with at least one full
\* analysis frame, it has returned a result whose complexity, brightness,
\* warmth, roughness and variation are numbers (the claim wants each in
\* [0,1], and a centroid and a harmonic ratio in range as well)
C6_TimbreReturnsMeasures ==
    (pc = "timbre_done" /\ Len(segmentFeatures) >= 1) =>
        /\ timbre.status = "returned"
        /\ \A name \in timbreMeasures : prop(timbre.value, name).kind = "number"
        /\ \A name \in {"spectralCentroid", "harmonicContent"} :
               prop(prop(timbre.value, "features"), name).kind = "number"

\* extractTimbre agrees with the loop taken frame by frame
TimbreLoopAgrees ==
    pc = "timbre_done" =>
        /\ timbre = extractTimbre(channelData)
        /\ Len(segmentFeatures) = timbreFrameCount(Len(channelData))

-----------------------------------------------------------------------------
(* SpecKey: extractKey, two actions per pass of its loop.                  *)
(*                                                                         *)
(* The signals are silent but for a few samples: in segment k the samples  *)
(* at the offsets of a note are set, an offset j being the frequency       *)
(* j * sampleRate / 4096 of the chromagram.                                *)

MaxKeySegments == 3
KeyRate == 820
KeyRates == {KeyRate}
KeyNotes ==
    {<< >>, << <<1958, 1>> >>, << <<1099, AmpScale>> >>,
     << <<1099, 1>>, <<1307, 1>>, <<1647, 1>> >>}

RECURSIVE withPulses(_, _, _, _)
\* signal with the samples of the note set, seen from index start on
withPulses(signal, start, note, k) ==
    IF k > Len(note) THEN signal
    ELSE withPulses([signal EXCEPT ![start + note[k][1] + 1] = note[k][2]], start, note, k + 1)

RECURSIVE withNotes(_, _, _, _)
\* signal with the note notes[k] in the k-th of n segments, for every k
withNotes(signal, notes, n, k) ==
    IF k > n THEN signal
    ELSE LET len == KeyRate * segmentDuration
             start == ((Len(signal) - len) * (k - 1)) \div (n - 1)
         IN  withNotes(withPulses(signal, start, notes[k], 1), notes, n, k + 1)

\* the notes of four segments of which two pairs agree on a key: two
\* segments of one key with different correlations, two of another key
TiedNotes ==
    {<< << <<1099, 1>>, <<1307, AmpScale>> >>, << <<1307, 1>> >>,
        << <<1958, 1>> >>, << <<1958, 1>> >> >>}

\* the four segments of TiedNotes in every order
TiedSignals ==
    {withNotes([i \in 1 .. 4 * KeyRate * segmentDuration |-> 0],
               [k \in 1 .. 4 |-> notes[order[k]]], 4, 1) :
         notes \in TiedNotes,
         order \in {f \in [1 .. 4 -> 1 .. 4] : \A a, b \in 1 .. 4 : f[a] = f[b] => a = b}}

KeySignals ==
    TiedSignals \cup
    {[i \in 1 .. L |-> 1] : L \in {0, 1, KeyRate * segmentDuration}}
    \cup {withNotes([i \in 1 .. n * KeyRate * segmentDuration + extra |-> 0], notes, n, 1) :
              <<n, extra, notes>> \in
                  UNION {{<<m, e, f>> : e \in (IF m = 2 THEN {0, 3} ELSE {0}),
                                        f \in [1 .. m -> KeyNotes]} : m \in 2 .. MaxKeySegments}}

KeyInit ==
    /\ pc = "key_loop"
    /\ channelData \in KeySignals
    /\ sampleRate \in KeyRates
    /\ tempoEntry
    /\ pitchEntry
    /\ timbreEntry
    /\ keyEntry
    /\ moodEntry
    /\ appEntry
    /\ unitEntry

KeyChromagram ==
    /\ pc = "key_loop"
    /\ keyPass < keyNumSegments(channelData, sampleRate)
    /\ chromagram' = calculateChromagram(keySegment(channelData, sampleRate, keyPass),
                                         sampleRate)
    /\ pc' = "key_detect"
    /\ UNCHANGED <<channelData, sampleRate, keyPass, segmentResults, key, tempoVars,
                   pitchVars, timbreVars, moodVars, appVars, unitVars>>

KeyDetect ==
    /\ pc = "key_detect"
    /\ segmentResults' = Append(segmentResults, detectKey(chromagram))
    /\ keyPass' = keyPass + 1
    /\ pc' = "key_loop"
    /\ UNCHANGED <<channelData, sampleRate, chromagram, key, tempoVars, pitchVars,
                   timbreVars, moodVars, appVars, unitVars>>

KeyReturn ==
    /\ pc = "key_loop"
    /\ keyPass >= keyNumSegments(channelData, sampleRate)
    /\ key' = combineKeyResults(segmentResults)
    /\ pc' = "key_done"
    /\ UNCHANGED <<channelData, sampleRate, keyPass, chromagram, segmentResults, tempoVars,
                   pitchVars, timbreVars, moodVars, appVars, unitVars>>

KeyNext == KeyChromagram \/ KeyDetect \/ KeyReturn

SpecKey == KeyInit /\ [][KeyNext]_vars

\* 0 <= share + conf <= 1 for a confidence of combineKeyResults
confidenceInUnit(c) ==
    /\ c.share[1] >= 0 /\ c.share[2] > 0
    /\ ~c.conf.isNaN /\ ~c.conf.negative
    /\ ~exceedsOne(c)

\* C7: whenever extractKey returns, the root is an integer in 0 .. 11, the
\* scale is major or minor, and the final confidence lies in [0, 1].
C7_KeyInRange ==
    (pc = "key_done" /\ key.status = "returned") =>
        /\ key.value.root \in 0 .. 11
        /\ key.value.scale \in {"major", "minor"}
        /\ confidenceInUnit(key.value.confidence)

\* a returned key of three segments that agree on a minor key, its
\* confidence cut down to 1
C7_Witness ==
    /\ pc = "key_done" /\ key.status = "returned"
    /\ Len(segmentResults) = 3
    /\ key.value.scale = "minor"
    /\ key.value.confidence = sumConfidence(<<1, 1>>, zeroRoot)

-----------------------------------------------------------------------------
(* SpecMood: extractMood on arguments of the types of the data model: a    *)
(* tempo in [40, 200], an RMS >= 0, a key confidence and timbre measures   *)
(* in [0, 1].                                                              *)

MoodScale == 10
MoodTempos == {40, 84, 101, 121, 200}
MoodLevels == {numberOf(0, 1), numberOf(MoodScale \div 2, MoodScale), numberOf(1, 1)}
MoodRms == {numberOf(0, 1), numberOf(3, MoodScale), numberOf(6, MoodScale),
            numberOf(12, MoodScale)}
MoodInputs ==
    [tempo : {numberOf(t, 1) : t \in MoodTempos},
     rms : MoodRms,
     key : [scale : {"major", "minor"}, confidence : MoodLevels],
     timbre : [complexity : MoodLevels, brightness : MoodLevels, roughness : MoodLevels,
               warmth : MoodLevels]]

MoodInit ==
    /\ pc = "mood_entry"
    /\ channelData = <<>>
    /\ sampleRate = 44100
    /\ tempoEntry
    /\ pitchEntry
    /\ timbreEntry
    /\ keyEntry
    /\ moodArgs \in MoodInputs
    /\ normalizedFeatures = normalize(noMoodArgs)
    /\ mood = notReturned
    /\ appEntry
    /\ unitEntry

MoodCall ==
    /\ pc = "mood_entry"
    /\ normalizedFeatures' = normalize(moodArgs)
    /\ mood' = extractMood(moodArgs.tempo, moodArgs.rms, moodArgs.key, moodArgs.timbre)
    /\ pc' = "mood_done"
    /\ UNCHANGED <<channelData, sampleRate, moodArgs, tempoVars, pitchVars, timbreVars,
                   keyVars, appVars, unitVars>>

MoodNext == MoodCall

SpecMood == MoodInit /\ [][MoodNext]_vars

\* 0 <= x <= 1
numInUnit(x) == ~x.isNaN /\ x.q[1] >= 0 /\ x.q[1] <= x.q[2]

\* C8: once the Mood Classifier has run, the normalized tempo and the
\* normalized loudness lie in [0, 1], the loudness is 2 * rms where that is
\* below 1 and 1 otherwise, and arousal, valence and dominance lie in [0, 1].
C8_MoodDimensionsInUnit ==
    pc = "mood_done" =>
        /\ numInUnit(normalizedFeatures.tempo)
        /\ numInUnit(normalizedFeatures.loudness)
        /\ normalizedFeatures.loudness.q =
               (IF 2 * moodArgs.rms.q[1] < moodArgs.rms.q[2]
                THEN reduced(2 * moodArgs.rms.q[1], moodArgs.rms.q[2]) ELSE <<1, 1>>)
        /\ numInUnit(calculateArousal(normalizedFeatures))
        /\ numInUnit(calculateValence(normalizedFeatures))
        /\ numInUnit(calculateDominance(normalizedFeatures))
        /\ mood.status = "returned" =>
               /\ numInUnit(mood.value.arousal)
               /\ numInUnit(mood.value.valence)
               /\ numInUnit(mood.value.dominance)

\* a returned mood of the fastest tempo and an RMS above 1/2, arousal 1
C8_Witness ==
    /\ pc = "mood_done" /\ mood.status = "returned"
    /\ moodArgs.tempo = numberOf(200, 1)
    /\ numGt(moodArgs.rms, numberOf(1, 2))
    /\ mood.value.arousal = one

emotionalLabels ==
    {"ecstatic", "angry", "content", "depressed", "triumphant", "dominant", "peaceful",
     "submissive", "neutral"}
genreTags == {"classical", "electronic", "rock", "folk", "jazz", "other"}

\* C9: for every combination of arguments extractMood returns without
\* raising, with one of the nine labels and a genre of the closed set, and
\* the genre that detectGenre returns has an entry in the color lookup.
C9_MoodReturns ==
    pc = "mood_done" =>
        /\ mood.status = "returned"
        /\ mood.value.primary \in emotionalLabels
        /\ mood.value.genre \in genreTags
        /\ detectGenre(moodArgs) \in DOMAIN GENRE_COLOR_MAPPINGS

-----------------------------------------------------------------------------
(* Spec: handleFileUpload of App, one action per stretch of the handler     *)
(* that runs without yielding: up to await loadAudioFile, from there up to *)
(* await extractTempo, and the rest.  Uploads are taken one after another. *)

MaxUploads == 2
SilentRate == 128
\* a rate whose second of signal holds one analysis frame of extractTimbre
FrameRate == fftSize + fftSize \div 4
shortAmps == {0, 1, -AmpScale}

\* a decoded file: the first channel of its AudioBuffer and its sample rate
decoded(data, sr) == [decodable |-> TRUE, channelData |-> data, sampleRate |-> sr]

\* a file that decodeAudioData rejects
corruptFile == [decodable |-> FALSE, channelData |-> <<>>, sampleRate |-> 0]

\* one second of silence
silentSecond(sr) == decoded([n \in 1 .. sr |-> 0], sr)
SilentSeconds == {silentSecond(SilentRate), silentSecond(FrameRate)}

PipelineFiles ==
    SilentSeconds \cup {corruptFile, decoded(<<>>, SilentRate),
     decoded(burstSignal(<<154>>, 2, TRUE), SilentRate),
     decoded(burstSignal(<<>>, 2, FALSE), SilentRate \div 2)}
    \cup {decoded(<<a>>, 44100) : a \in shortAmps}
    \cup {decoded(<<a, b>>, 44100) : a \in shortAmps, b \in shortAmps}

\* some detectOnsets loop of extractTempo never ends
extractTempoHangs(data, sr) == \E k \in 1 .. 3 : tempoHangs(downsample(data), sr, k)

\* the catch block without the finally block
caught_noFinally ==
    /\ error' = "Error processing audio file. Please try again."
    /\ notifications' = Append(notifications, "Error")
    /\ UNCHANGED <<isLoading, audioFeatures>>

\* catch (err) { setError(...); notifications.show({ title: 'Error' }) }
\* finally { setIsLoading(false) }
caught ==
    /\ error' = "Error processing audio file. Please try again."
    /\ notifications' = Append(notifications, "Error")
    /\ isLoading' = FALSE
    /\ UNCHANGED audioFeatures

\* the arguments of extractMood: the numbers of the Key and Timbre results
\* and the RMS are handed on as any value of the grid of MoodInputs
moodArgsOf(tempoArg, rmsArg, scale, confidence, measures) ==
    [tempo |-> numberOf(tempoArg, 1), rms |-> rmsArg,
     key |-> [scale |-> scale, confidence |-> confidence],
     timbre |-> [complexity |-> measures["complexity"],
                 brightness |-> measures["brightness"],
                 roughness |-> measures["roughness"], warmth |-> measures["warmth"]]]

Init ==
    /\ pc = "idle"
    /\ channelData = <<>>
    /\ sampleRate = 0
    /\ tempoEntry
    /\ pitchEntry
    /\ timbreEntry
    /\ keyEntry
    /\ moodEntry
    /\ appEntry
    /\ unitEntry

\* const file = files[0]; setIsLoading(true); setError(null);
\* await loadAudioFile(file)
StartUpload ==
    /\ pc = "idle"
    /\ uploads < MaxUploads
    /\ file' \in PipelineFiles
    /\ uploads' = uploads + 1
    /\ isLoading' = TRUE
    /\ error' = "null"
    /\ tempo' = 0
    /\ rms' = extractRms(<<>>)
    /\ pitch' = [isNull |-> TRUE, hz |-> 0]
    /\ timbre' = notReturned
    /\ key' = notReturned
    /\ mood' = notReturned
    /\ called' = <<>>
    /\ pc' = "loading"
    /\ UNCHANGED <<channelData, sampleRate, windowIdx, bestTempo, maxConfidence,
                   lastEstimate, pitchPass, pitchCandidates, correlations, frameStart,
                   segmentFeatures, timbreFeatures, keyPass, chromagram, segmentResults,
                   moodArgs, normalizedFeatures, audioFeatures, notifications,
                   unitVars>>

\* decodeAudioData rejects: catch and finally
LoadRejected ==
    /\ pc = "loading"
    /\ ~file.decodable
    /\ caught
    /\ pc' = "idle"
    /\ UNCHANGED <<channelData, sampleRate, tempoVars, pitchVars, timbreVars, keyVars,
                   moodVars, rms, file, uploads, called, unitVars>>

\* loadAudioFile resolves; extractBasicFeatures; the body of extractTempo
\* runs up to its return, or never returns
LoadResolved ==
    /\ pc = "loading"
    /\ file.decodable
    /\ channelData' = channelDataAfterDownsample(file.channelData)
    /\ sampleRate' = file.sampleRate
    /\ IF extractTempoHangs(file.channelData, file.sampleRate)
       THEN pc' = "hung" /\ UNCHANGED tempo
       ELSE pc' = "tempo_awaited" /\ tempo' = extractTempo(file.channelData, file.sampleRate)
    /\ called' = <<"extractTempo">>
    /\ UNCHANGED <<windowIdx, bestTempo, maxConfidence, lastEstimate, pitchVars, timbreVars,
                   keyVars, moodVars, rms, file, isLoading, error, audioFeatures,
                   notifications, uploads, unitVars>>

\* const rms, const pitch, const timbre: the three calls after await extractTempo
rmsPitchTimbre == <<"extractRms", "extractPitch", "extractTimbre">>

\* extractTempo has resolved: extractRms, extractPitch, extractTimbre,
\* extractKey, extractMood, the color mappings, setAudioFeatures and the
\* Success notification; an exception of any of them goes to catch; finally
Analyze ==
    /\ pc = "tempo_awaited"
    /\ rms' = extractRms(channelData)
    /\ pitch' = extractPitch(channelData, sampleRate)
    /\ timbre' = extractTimbre(channelData)
    /\ IF timbre'.status = "threw"
       THEN /\ caught
            /\ called' = called \o rmsPitchTimbre
            /\ UNCHANGED <<key, moodVars>>
       ELSE /\ key' = extractKey(channelData, sampleRate)
            /\ IF key'.status = "threw"
               THEN /\ caught
                    /\ called' = called \o rmsPitchTimbre \o <<"extractKey">>
                    /\ UNCHANGED moodVars
               ELSE \E rmsArg \in MoodRms, confidence \in MoodLevels,
                       measures \in [timbreMeasures -> MoodLevels] :
                        /\ moodArgs' = moodArgsOf(tempo, rmsArg, key'.value.scale,
                                                  confidence, measures)
                        /\ normalizedFeatures' = normalize(moodArgs')
                        /\ mood' = extractMood(moodArgs'.tempo, moodArgs'.rms,
                                               moodArgs'.key, moodArgs'.timbre)
                        /\ called' = called \o rmsPitchTimbre
                                          \o <<"extractKey", "extractMood">>
                        /\ IF mood'.status = "threw"
                           THEN caught
                           ELSE /\ audioFeatures' =
                                       [present |-> TRUE, tempo |-> tempo, rms |-> rms',
                                        pitch |-> pitch', timbre |-> timbre'.value,
                                        key |-> key'.value, mood |-> mood'.value]
                                /\ notifications' = Append(notifications, "Success")
                                /\ isLoading' = FALSE
                                /\ UNCHANGED error
    /\ pc' = "idle"
    /\ UNCHANGED <<channelData, sampleRate, tempoVars, pitchPass, pitchCandidates,
                   correlations, frameStart, segmentFeatures, timbreFeatures, keyPass,
                   chromagram, segmentResults, file, uploads, unitVars>>

Next == StartUpload \/ LoadRejected \/ LoadResolved \/ Analyze

Spec == Init /\ [][Next]_vars

\* a run of handleFileUpload on a decoded file has come to its end
uploadCompleted == pc = "idle" /\ uploads > 0 /\ file.decodable

\* C1: when the Timbre analysis of an upload raises, the handler still
\* stores the feature set of that upload and reports no error
C1_FailedAnalysisDoesNotBlock ==
    (uploadCompleted /\ timbre.status = "threw") =>
        /\ audioFeatures.present
        /\ error = "null"

\* C2: after an upload of one second of silence the RMS is 0, the pitch is
\* null and none of the extractors has raised
C2_SilentSecond ==
    (uploadCompleted /\ file \in SilentSeconds) =>
        /\ rmsIsZero(rms)
        /\ pitch.isNull
        /\ timbre.status # "threw"
        /\ key.status # "threw"
        /\ mood.status # "threw"

\* what the code does on one second of silence: RMS 0 and a null pitch, and
\* extractTimbre raises, so that extractKey and extractMood are not called
SilentSecondOutcome ==
    (uploadCompleted /\ file \in SilentSeconds) =>
        /\ rmsIsZero(rms)
        /\ pitch.isNull
        /\ timbre.status = "threw"
        /\ key.status = "none"
        /\ mood.status = "none"
        /\ ~audioFeatures.present
        /\ ~isLoading

-----------------------------------------------------------------------------
(* The order of the calls and the channel buffer in handleFileUpload *)

\* the extractors in the order of the statements of handleFileUpload
callOrder ==
    <<"extractTempo", "extractRms", "extractPitch", "extractTimbre", "extractKey",
      "extractMood">>

\* the calls made so far are the first ones of callOrder
CalledInOrder == Len(called) <= Len(callOrder) /\ called = SubSeq(callOrder, 1, Len(called))

\* C11: in every run of the pipeline on a decoded file Mood is computed,
\* after the Tempo, Loudness, Timbre and Key of the same run, and is the
\* last feature computed
C11_MoodComputedLast ==
    uploadCompleted =>
        /\ Len(called) > 0
        /\ called[Len(called)] = "extractMood"
        /\ \A f \in {"extractTempo", "extractRms", "extractTimbre", "extractKey"} :
               \E i \in 1 .. Len(called) - 1 : called[i] = f

\* the analyses of the upload in progress have run on the buffer
analysesRan == pc = "tempo_awaited" \/ pc = "hung" \/ uploadCompleted

-----------------------------------------------------------------------------
(* SpecClick: extractTempo on click trains of 120 BPM: ClickSeconds        *)
(* seconds of silence with a click every half second.                      *)

ClickSeconds == 10
ClickRates == {64, 128, 256}
ClickLens == {1, 4, 8}
ClickPhases == {0, 1}

\* a click of clickLen samples, of one sign or of alternating signs, starts
\* at phase and then every sr / 2 samples
clickTrain(sr, clickLen, phase, alternating) ==
    [n \in 1 .. ClickSeconds * sr |->
        LET k == n - 1 - phase
            j == k % (sr \div 2)
        IN  IF k >= 0 /\ j < clickLen
            THEN (IF alternating /\ j % 2 = 1 THEN -AmpScale ELSE AmpScale)
            ELSE 0]

ClickInit ==
    /\ pc = "tempo_loop"
    /\ \E sr \in ClickRates, clickLen \in ClickLens, phase \in ClickPhases,
          alternating \in BOOLEAN :
           /\ sampleRate = sr
           /\ channelData = clickTrain(sr, clickLen, phase, alternating)
    /\ tempoEntry
    /\ pitchEntry
    /\ timbreEntry
    /\ keyEntry
    /\ moodEntry
    /\ appEntry
    /\ unitEntry

SpecClick == ClickInit /\ [][TempoNext]_vars

\* C13: on a click train of 120 BPM extractTempo returns a BPM within 5 of
\* 120, and the estimate it kept has a confidence above 1/2
C13_ClickTrainTempo ==
    pc = "tempo_done" =>
        /\ tempo >= 115 /\ tempo <= 125
        /\ QGt(maxConfidence, <<1, 2>>)

\* what extractTempo does on these trains: no interval of any window size is
\* in range (each onset time is the downsampled index over 4 * sampleRate,
\* 1/16 of the time of the sample), and the default 120 is returned
ClickTrainOutcome ==
    /\ pc = "tempo_done" => tempo = 120 /\ maxConfidence = <<0, 1>>
    /\ lastEstimate.present => lastEstimate.confidence[1] = 0

-----------------------------------------------------------------------------
(* SpecRms: extractRms, one action per pass of its outer loop, on signals  *)
(* of up to MaxRmsWindows windows and a sample more.                       *)

MaxRmsWindows == 3
RmsLens == {1, 2, 3} \cup {k * rmsWindowSize + r : k \in 1 .. MaxRmsWindows, r \in {-1, 0, 1}}
RmsPatterns == {"silent", "constant", "alternating", "ramp"}

rmsSignal(length, pattern) ==
    [n \in 1 .. length |->
        CASE pattern = "silent" -> 0
          [] pattern = "constant" -> 1
          [] pattern = "alternating" -> (IF n % 2 = 0 THEN AmpScale ELSE -AmpScale)
          [] pattern = "ramp" -> (n % 3) - 1]

RmsSignals == {rmsSignal(length, pattern) : length \in RmsLens, pattern \in RmsPatterns}

RmsInit ==
    /\ pc = "rms_loop"
    /\ channelData \in RmsSignals
    /\ sampleRate = 44100
    /\ tempoEntry
    /\ pitchEntry
    /\ timbreEntry
    /\ keyEntry
    /\ moodEntry
    /\ appEntry
    /\ unitEntry

\* one pass of: for (let i = 0; i < channelData.length; i += windowSize)
RmsWindow ==
    /\ pc = "rms_loop"
    /\ rmsStart < Len(channelData)
    /\ rmsSum' = rmsSum + rmsWindowSum(channelData, rmsStart)
    /\ rmsCount' = rmsCount + (rmsWindowLimit(channelData, rmsStart) - rmsStart)
    /\ rmsStart' = rmsNextStart(rmsStart)
    /\ UNCHANGED <<pc, channelData, sampleRate, tempoVars, pitchVars, timbreVars, keyVars,
                   moodVars, appVars, onsetVars, emotionArgs, emotionLabel, colorArgs, baseColor,
                   laterVars>>

\* return Math.sqrt(sum / count)
RmsReturn ==
    /\ pc = "rms_loop"
    /\ rmsStart >= Len(channelData)
    /\ rms' = [isNaN |-> rmsCount = 0, sum |-> rmsSum, count |-> rmsCount]
    /\ pc' = "rms_done"
    /\ UNCHANGED <<channelData, sampleRate, tempoVars, pitchVars, timbreVars, keyVars,
                   moodVars, file, isLoading, error, audioFeatures, notifications, uploads,
                   called, unitVars>>

RmsNext == RmsWindow \/ RmsReturn

SpecRms == RmsInit /\ [][RmsNext]_vars

\* the sum of the squares of all samples
sumOfSquares(data) == SumRange([n \in 1 .. Len(data) |-> data[n] * data[n]], 1, Len(data))

\* C14: when extractRms returns on a non-empty signal it has counted every
\* sample once and summed the squares of all samples, so that the value is
\* the RMS of the whole signal, a number >= 0
C14_RmsCoversEachSampleOnce ==
    pc = "rms_done" =>
        /\ rms.count = Len(channelData)
        /\ rms.sum = sumOfSquares(channelData)
        /\ ~rms.isNaN
        /\ rms.sum >= 0
        /\ rms = extractRms(channelData)

\* extractRms has returned a non-zero RMS of a signal of several windows, the
\* last of them cut short by the end of the signal
C14_Witness ==
    /\ pc = "rms_done"
    /\ Len(channelData) > 2 * rmsWindowSize
    /\ Len(channelData) % rmsWindowSize # 0
    /\ rms.sum > 0

-----------------------------------------------------------------------------
(* SpecEmotion: mapToEmotionalState on arguments at, below and above its   *)
(* thresholds 0.3, 0.5 and 0.7, and on NaN.                                *)

EmotionScale == 10
EmotionLevels == {numberOf(k, EmotionScale) : k \in {2, 3, 4, 5, 6, 7, 8}} \cup {numberNaN}

EmotionInit ==
    /\ pc = "emotion_entry"
    /\ channelData = <<>>
    /\ sampleRate = 44100
    /\ tempoEntry
    /\ pitchEntry
    /\ timbreEntry
    /\ keyEntry
    /\ moodEntry
    /\ appEntry
    /\ rmsStart = 0
    /\ rmsSum = 0
    /\ rmsCount = 0
    /\ onsetEntry
    /\ laterEntry
    /\ emotionArgs \in [arousal : EmotionLevels, valence : EmotionLevels,
                        dominance : EmotionLevels]
    /\ emotionLabel = "none"
    /\ colorArgs = [bpm |-> numberOf(120, 1), pitch |-> numberOf(0, 1), rms |-> zero]
    /\ baseColor = [h |-> 0, s |-> 0, l |-> 0]

EmotionCall ==
    /\ pc = "emotion_entry"
    /\ emotionLabel' = mapToEmotionalState(emotionArgs.arousal, emotionArgs.valence,
                                           emotionArgs.dominance)
    /\ pc' = "emotion_done"
    /\ UNCHANGED <<channelData, sampleRate, tempoVars, pitchVars, timbreVars, keyVars,
                   moodVars, appVars, rmsVars, onsetVars, emotionArgs, colorArgs, baseColor,
                   laterVars>>

EmotionNext == EmotionCall

SpecEmotion == EmotionInit /\ [][EmotionNext]_vars

\* one of the four arousal/valence corner rules applies
cornerRule(a, v) ==
    \/ numGt(a, tenths(7)) /\ numGt(v, tenths(7))
    \/ numGt(a, tenths(7)) /\ numLt(v, tenths(3))
    \/ numLt(a, tenths(3)) /\ numGt(v, tenths(7))
    \/ numLt(a, tenths(3)) /\ numLt(v, tenths(3))

\* C15: mapToEmotionalState returns one of the nine labels for every
\* argument triple: the label of the corner rule that applies, whatever the
\* dominance; else triumphant/dominant for dominance > 0.7 and
\* peaceful/submissive for dominance < 0.3, by valence > 0.5 or not; else
\* neutral
C15_EmotionalStateTable ==
    pc = "emotion_done" =>
        LET a == emotionArgs.arousal
            v == emotionArgs.valence
            d == emotionArgs.dominance
            high(x) == numGt(x, tenths(7))
            low(x) == numLt(x, tenths(3))
        IN  /\ emotionLabel \in emotionalLabels
            /\ (high(a) /\ high(v)) => emotionLabel = "ecstatic"
            /\ (high(a) /\ low(v)) => emotionLabel = "angry"
            /\ (low(a) /\ high(v)) => emotionLabel = "content"
            /\ (low(a) /\ low(v)) => emotionLabel = "depressed"
            /\ (~cornerRule(a, v) /\ high(d)) =>
                   emotionLabel = (IF numGt(v, tenths(5)) THEN "triumphant" ELSE "dominant")
            /\ (~cornerRule(a, v) /\ low(d)) =>
                   emotionLabel = (IF numGt(v, tenths(5)) THEN "peaceful" ELSE "submissive")
            /\ (~cornerRule(a, v) /\ ~high(d) /\ ~low(d)) => emotionLabel = "neutral"

\* a corner rule and a dominance rule both apply, and the corner rule has won
C15_Witness ==
    /\ pc = "emotion_done"
    /\ numGt(emotionArgs.arousal, tenths(7))
    /\ numLt(emotionArgs.valence, tenths(3))
    /\ numGt(emotionArgs.dominance, tenths(7))
    /\ emotionLabel = "angry"

-----------------------------------------------------------------------------
(* SpecColor: generateBaseColor on tempos, pitches and RMS values of a grid *)

ColorScale == 20
ColorBpms == {numberOf(b, 1) : b \in {0, 40, 80, 100, 120, 160, 200}} \cup {numberNaN}
ColorPitches == {numberOf(f, 1) : f \in {0, 20, 440, 2000}}
ColorRms ==
    {numberOf(k, ColorScale) : k \in {0, 1, 2, 5, 10, 15, 20, 30}} \cup {numberNaN}

ColorInit ==
    /\ pc = "color_entry"
    /\ channelData = <<>>
    /\ sampleRate = 44100
    /\ tempoEntry
    /\ pitchEntry
    /\ timbreEntry
    /\ keyEntry
    /\ moodEntry
    /\ appEntry
    /\ rmsStart = 0
    /\ rmsSum = 0
    /\ rmsCount = 0
    /\ onsetEntry
    /\ laterEntry
    /\ emotionArgs = [arousal |-> zero, valence |-> zero, dominance |-> zero]
    /\ emotionLabel = "none"
    /\ colorArgs \in [bpm : ColorBpms, pitch : ColorPitches, rms : ColorRms]
    /\ baseColor = [h |-> 0, s |-> 0, l |-> 0]

ColorCall ==
    /\ pc = "color_entry"
    /\ baseColor' = generateBaseColor(colorArgs.bpm, colorArgs.pitch, colorArgs.rms)
    /\ pc' = "color_done"
    /\ UNCHANGED <<channelData, sampleRate, tempoVars, pitchVars, timbreVars, keyVars,
                   moodVars, appVars, rmsVars, onsetVars, emotionArgs, emotionLabel, colorArgs,
                   laterVars>>

ColorNext == ColorCall

SpecColor == ColorInit /\ [][ColorNext]_vars

\* x <= y for numbers that are not NaN
numLe(x, y) == ~x.isNaN /\ ~y.isNaN /\ ~numGt(x, y)

\* C16: the lightness of the base color lies in [30, 90], and no quieter
\* signal (a smaller rms >= 0, rms = 0 included) gets a lighter base color
C16_LightnessMonotone ==
    pc = "color_done" =>
        /\ baseColor.l >= 30 /\ baseColor.l <= 90
        /\ \A quieter \in ColorRms :
               numLe(quieter, colorArgs.rms) =>
                   generateBaseColor(colorArgs.bpm, colorArgs.pitch, quieter).l
                       <= baseColor.l

\* what holds: the range, and monotonicity among the rms values above 0
LightnessMonotoneAboveZero ==
    pc = "color_done" =>
        /\ baseColor.l >= 30 /\ baseColor.l <= 90
        /\ baseColor.h >= 0 /\ baseColor.h <= 240
        /\ baseColor.s >= 30 /\ baseColor.s <= 100
        /\ \A quieter \in ColorRms :
               (numLe(quieter, colorArgs.rms) /\ numGt(quieter, zero)) =>
                   generateBaseColor(colorArgs.bpm, colorArgs.pitch, quieter).l
                       <= baseColor.l
        /\ colorArgs.rms = zero => baseColor.l = 90

-----------------------------------------------------------------------------
(* handleFileUpload on a file that decodes to no samples *)

zeroLengthFile == file.decodable /\ Len(file.channelData) = 0

\* the step on which a run of handleFileUpload comes to its end
runEnds == pc # "idle" /\ pc' = "idle"

\* C17: a run on a zero-length signal ends with the error state set and
\* one Error notification added, leaves audioFeatures as it was before the
\* run, stores no feature set, and ends with isLoading false
C17_ZeroLengthFails ==
    [][(zeroLengthFile /\ runEnds) =>
           /\ error' = "Error processing audio file. Please try again."
           /\ notifications' = Append(notifications, "Error")
           /\ audioFeatures' = audioFeatures
           /\ ~audioFeatures'.present
           /\ isLoading /\ ~isLoading']_vars

C17_Witness ==
    /\ uploadCompleted
    /\ zeroLengthFile
    /\ called = SubSeq(callOrder, 1, 4)
    /\ error # "null"
    /\ ~isLoading

-----------------------------------------------------------------------------
(* Which estimate extractTempo keeps *)

\* the estimate that the pass of window size number k makes: the onsets
\* and bins of that window size alone
windowEstimate(data, sr, k) ==
    LET windowSize == windowSizes(sr)[k]
        d == downsample(data)
        onsets == detectOnsets(d, windowSize, windowSize \div 2, baseThreshold(d))
    IN  IF Len(onsets) >= 2
        THEN [present |-> TRUE] @@ calculateTempoFromOnsets(onsets, sr)
        ELSE noEstimate

\* the window sizes whose winning bin holds at least one interval
binnedWindows(data, sr) ==
    {k \in 1 .. 3 : windowEstimate(data, sr, k).confidence[1] > 0}

\* the window sizes whose winning bin holds the most intervals of all bins
\* of all window sizes
mostPopulous(data, sr) ==
    {k \in binnedWindows(data, sr) :
        \A m \in binnedWindows(data, sr) :
            windowEstimate(data, sr, m).confidence[1]
                <= windowEstimate(data, sr, k).confidence[1]}

\* C18 as stated: the BPM that extractTempo returns is the bin with the most
\* intervals among the bins of the three window sizes, and among window sizes
\* whose bins tie in their count, that of a window size of highest confidence
C18_MostPopulousBinWins ==
    (pc = "tempo_done" /\ binnedWindows(channelData, sampleRate) # {}) =>
        \E k \in mostPopulous(channelData, sampleRate) :
            /\ tempo = windowEstimate(channelData, sampleRate, k).tempo
            /\ \A m \in mostPopulous(channelData, sampleRate) :
                   ~QGt(windowEstimate(channelData, sampleRate, m).confidence,
                        windowEstimate(channelData, sampleRate, k).confidence)

\* C18, amended: the BPM that extractTempo returns is the winning bin of
\* the window size of highest confidence (count of the bin over the number of
\* intervals of that window size), whatever the counts of the bins, and of
\* the first such window size when confidences tie
C18_HighestConfidenceWins ==
    (pc = "tempo_done" /\ binnedWindows(channelData, sampleRate) # {}) =>
        \E k \in binnedWindows(channelData, sampleRate) :
            /\ tempo = windowEstimate(channelData, sampleRate, k).tempo
            /\ maxConfidence = windowEstimate(channelData, sampleRate, k).confidence
            /\ \A m \in 1 .. 3 :
                   /\ ~QGt(windowEstimate(channelData, sampleRate, m).confidence,
                           maxConfidence)
                   /\ m < k => QGt(maxConfidence,
                                   windowEstimate(channelData, sampleRate, m).confidence)

\* extractTempo has returned the bin of a window size of higher confidence
\* while a bin of another window size holds more intervals
C18_Witness ==
    /\ pc = "tempo_done"
    /\ \E k, m \in binnedWindows(channelData, sampleRate) :
           /\ tempo = windowEstimate(channelData, sampleRate, k).tempo
           /\ maxConfidence = windowEstimate(channelData, sampleRate, k).confidence
           /\ windowEstimate(channelData, sampleRate, m).tempo # tempo
           /\ windowEstimate(channelData, sampleRate, m).confidence[1]
                  > windowEstimate(channelData, sampleRate, k).confidence[1]
           /\ QGt(maxConfidence, windowEstimate(channelData, sampleRate, m).confidence)

-----------------------------------------------------------------------------
(* The default of extractTempo *)

\* the onset indices that window size number k yields
windowOnsets(data, sr, k) ==
    LET windowSize == windowSizes(sr)[k]
        d == downsample(data)
    IN  detectOnsets(d, windowSize, windowSize \div 2, baseThreshold(d))

\* the intervals of window size number k whose BPM lies in [40, 200]
inRangeIntervals(data, sr, k) ==
    LET onsets == windowOnsets(data, sr, k)
    IN  {i \in 1 .. Len(onsets) - 1 : bpmInRange(intervalBpm(onsets[i + 1] - onsets[i], sr))}

\* the window sizes that the loop of extractTempo has been through
passedWindows == 1 .. windowIdx - 1

\* C19: extractTempo returns 120 when no window size yields two onsets and
\* when no interval of any window size has a BPM in [40, 200]; and once a
\* window size has given an estimate from an interval in range, the estimate
\* kept is that of such a window size, whatever the window sizes without an
\* interval in range that come after it
C19_DefaultTempo ==
    /\ (pc = "tempo_done" /\ \A k \in 1 .. 3 : Len(windowOnsets(channelData, sampleRate, k)) < 2)
           => tempo = 120
    /\ (pc = "tempo_done" /\ \A k \in 1 .. 3 : inRangeIntervals(channelData, sampleRate, k) = {})
           => tempo = 120
    /\ (pc \in {"tempo_loop", "tempo_done"}
            /\ \E k \in passedWindows : inRangeIntervals(channelData, sampleRate, k) # {})
           => \E k \in passedWindows :
                  /\ inRangeIntervals(channelData, sampleRate, k) # {}
                  /\ bestTempo = windowEstimate(channelData, sampleRate, k).tempo
                  /\ maxConfidence = windowEstimate(channelData, sampleRate, k).confidence
                  /\ QGt(maxConfidence, <<0, 1>>)

\* extractTempo has returned the estimate of one window size after a later
\* window size yielded onsets but no interval in range
C19_Witness ==
    /\ pc = "tempo_done"
    /\ \E k, m \in 1 .. 3 :
           /\ k < m
           /\ inRangeIntervals(channelData, sampleRate, k) # {}
           /\ tempo = windowEstimate(channelData, sampleRate, k).tempo
           /\ Len(windowOnsets(channelData, sampleRate, m)) >= 2
           /\ inRangeIntervals(channelData, sampleRate, m) = {}

\* extractTempo has returned its default although some window size yielded
\* two onsets or more
DefaultWithOnsets ==
    /\ pc = "tempo_done"
    /\ tempo = 120
    /\ \E k \in 1 .. 3 : Len(windowOnsets(channelData, sampleRate, k)) >= 2
    /\ \A k \in 1 .. 3 : inRangeIntervals(channelData, sampleRate, k) = {}

-----------------------------------------------------------------------------
(* SpecOnsets: the loop of detectOnsets, one action per pass *)

\* energyHistory.push(windowEnergy) without the shift
pushEnergy_noShift(hist, e) == Append(hist, e)

\* energyHistory.push(windowEnergy);
\* if (energyHistory.length > historySize) energyHistory.shift()
pushEnergy(hist, e) ==
    LET pushed == Append(hist, e)
    IN  IF Len(pushed) > historySize THEN Tail(pushed) ELSE pushed

\* energyHistory.slice(-3)
lastThree(hist) == SubSeq(hist, Max(1, Len(hist) - 2), Len(hist))

\* windowEnergy > localThreshold &&
\* windowEnergy > calculateMean(energyHistory.slice(-3)) * 1.2
\* for windowEnergy = E / windowSize and a history of energies times windowSize
onsetCondition(E, hist, windowSize, base) ==
    /\ aboveBaseThreshold(E, windowSize, base)
    /\ 2 * E * Len(hist) > 3 * SumRange(hist, 1, Len(hist))
    /\ 5 * E * Len(lastThree(hist)) > 6 * SumRange(lastThree(hist), 1, Len(lastThree(hist)))

\* trains of bursts that are some tens of windows apart
OnsetSignals ==
    {burstSignal(g, blen, TRUE) :
        g \in {<<100>>, <<30, 100>>, <<100, 100>>, <<100, 20>>}, blen \in BurstLens}

\* the sample rates at which every hop size is positive
OnsetRates == {sr \in TempoRates : windowSizes(sr)[3] \div 2 > 0}

onsetWindowSize == windowSizes(sampleRate)[windowIdx]
onsetHopSize == onsetWindowSize \div 2

OnsetInit ==
    /\ pc = "onsets_loop"
    /\ channelData \in OnsetSignals
    /\ sampleRate \in OnsetRates
    /\ windowIdx \in 1 .. 3
    /\ bestTempo = 120
    /\ maxConfidence = <<0, 1>>
    /\ lastEstimate = noEstimate
    /\ tempo = 0
    /\ pitchEntry
    /\ timbreEntry
    /\ keyEntry
    /\ moodEntry
    /\ appEntry
    /\ unitEntry

\* one pass of: for (let i = 0; i < signal.length - windowSize; i += hopSize)
OnsetWindow ==
    /\ pc = "onsets_loop"
    /\ onsetStart < dataLength(downsample(channelData)) - onsetWindowSize
    /\ LET d == downsample(channelData)
           E == windowEnergySum(d, onsetStart, onsetWindowSize)
           hist == pushEnergy(energyHistory, E)
       IN  /\ energyHistory' = hist
           /\ onsetTimes' = IF onsetCondition(E, hist, onsetWindowSize, baseThreshold(d))
                            THEN Append(onsetTimes, onsetStart)
                            ELSE onsetTimes
    /\ onsetStart' = onsetStart + onsetHopSize
    /\ UNCHANGED <<pc, channelData, sampleRate, tempoVars, pitchVars, timbreVars, keyVars,
                   moodVars, appVars, rmsVars, emotionArgs, emotionLabel, colorArgs,
                   baseColor, laterVars>>

\* return onsetTimes
OnsetReturn ==
    /\ pc = "onsets_loop"
    /\ ~(onsetStart < dataLength(downsample(channelData)) - onsetWindowSize)
    /\ pc' = "onsets_done"
    /\ UNCHANGED <<channelData, sampleRate, tempoVars, pitchVars, timbreVars, keyVars,
                   moodVars, appVars, unitVars>>

OnsetNext == OnsetWindow \/ OnsetReturn

SpecOnsets == OnsetInit /\ [][OnsetNext]_vars

\* the number of passes of the loop done so far
onsetPasses == onsetStart \div onsetHopSize

\* the energy, times the window size, of the window of pass number k (from 0)
passEnergy(k) == windowEnergySum(downsample(channelData), k * onsetHopSize, onsetWindowSize)

\* the energies of the passes lo .. hi, in order
passEnergies(lo, hi) == [n \in 1 .. hi - lo + 1 |-> passEnergy(lo + n - 1)]

\* the window of pass k exceeds both thresholds, over the energies of the
\* historySize most recent passes up to and including pass k
exceedsThresholds(k) ==
    LET recent == passEnergies(Max(0, k - historySize + 1), k)
        last3 == passEnergies(Max(0, k - 2), k)
        base == baseThreshold(downsample(channelData))
    IN  /\ aboveBaseThreshold(passEnergy(k), onsetWindowSize, base)
        /\ 2 * passEnergy(k) * Len(recent) > 3 * SumRange(recent, 1, Len(recent))
        /\ 5 * passEnergy(k) * Len(last3) > 6 * SumRange(last3, 1, Len(last3))

\* C20: in the loop of detectOnsets the history holds the energies of the
\* most recent passes, never more than 43 of them, and the windows flagged
\* so far are exactly those whose energy exceeds max(baseThreshold, 1.5 times
\* the mean of the history) and 1.2 times the mean of the last 3 entries
C20_OnsetRule ==
    pc \in {"onsets_loop", "onsets_done"} =>
        /\ Len(energyHistory) <= historySize
        /\ energyHistory = passEnergies(Max(0, onsetPasses - historySize), onsetPasses - 1)
        /\ \A k \in 0 .. onsetPasses - 1 :
               exceedsThresholds(k) <=>
                   \E n \in 1 .. Len(onsetTimes) : onsetTimes[n] = k * onsetHopSize
        /\ \A n \in 1 .. Len(onsetTimes) :
               /\ onsetTimes[n] % onsetHopSize = 0
               /\ onsetTimes[n] < onsetStart
               /\ n > 1 => onsetTimes[n - 1] < onsetTimes[n]
        /\ pc = "onsets_done" =>
               onsetTimes = detectOnsets(downsample(channelData), onsetWindowSize,
                                         onsetHopSize,
                                         baseThreshold(downsample(channelData)))

\* the loop has flagged a window after the history has begun to drop its
\* oldest entries
C20_Witness ==
    /\ pc = "onsets_done"
    /\ onsetPasses > historySize
    /\ Len(energyHistory) = historySize
    /\ \E n \in 1 .. Len(onsetTimes) : onsetTimes[n] \div onsetHopSize >= historySize
    /\ \E n \in 1 .. Len(onsetTimes) : onsetTimes[n] \div onsetHopSize < historySize

-----------------------------------------------------------------------------
(* Which candidates extractPitch returns the median of *)

\* the { pitch, clarity } that autocorrelationPitch returns in pass n = 0 .. 5
passCandidate(n) ==
    autocorrelationPitch(correlationsOf(pitchSegment(channelData, n)), sampleRate)

\* the candidates of the six passes, in the order of the passes
passCandidates ==
    <<passCandidate(0), passCandidate(1), passCandidate(2), passCandidate(3),
      passCandidate(4), passCandidate(5)>>

\* the passes whose candidate has a pitch and a clarity above 0.5
clearPasses(c) == {n \in 1 .. Len(c) : ~c[n].isNull /\ QGt(c[n].clarity, <<1, 2>>)}

\* the median of the pitches of the passes T of c, rounded
medianOfPasses(c, T) ==
    LET n == Cardinality(T)
        below(m) == Cardinality({k \in T : QGt(c[m].pitch, c[k].pitch)})
        above(m) == Cardinality({k \in T : QGt(c[k].pitch, c[m].pitch)})
        lower == CHOOSE m \in T : below(m) <= (n - 1) \div 2 /\ above(m) <= n \div 2
        upper == CHOOSE m \in T : below(m) <= n \div 2 /\ above(m) <= (n - 1) \div 2
        a == c[lower].pitch
        b == c[upper].pitch
    IN  RoundQ(a[1] * b[2] + b[1] * a[2], 2 * a[2] * b[2])

\* hz is the rounded median of at most 5 candidates of c that no candidate
\* left out is clearer than
medianOfClearest(c, hz) ==
    \E top \in SUBSET clearPasses(c) :
        /\ Cardinality(top) = Min(5, Cardinality(clearPasses(c)))
        /\ \A m \in top, k \in clearPasses(c) \ top : QGe(c[m].clarity, c[k].clarity)
        /\ hz = medianOfPasses(c, top)

-----------------------------------------------------------------------------
(* The segments extractKey analyzes *)

\* segment i of the signal is a run of exactly segmentLength samples
wholeSegment(i) ==
    dataLength(keySegment(channelData, sampleRate, i))
        = keySegmentLength(channelData, sampleRate)

\* the segments lie inside the signal, the first at its start and the last
\* at its end
segmentsSpanSignal ==
    LET n == keyNumSegments(channelData, sampleRate)
        len == keySegmentLength(channelData, sampleRate)
    IN  /\ n >= 1
        /\ len >= 1
        /\ \A i \in 0 .. n - 1 : wholeSegment(i)
        /\ keySegment(channelData, sampleRate, 0) = slice(channelData, 0, len)
        /\ keySegment(channelData, sampleRate, n - 1)
               = slice(channelData, Len(channelData) - len, Len(channelData))

\* C22: for every non-empty signal extractKey analyzes at least one segment,
\* every segment is a non-empty run of exactly segmentLength samples inside
\* the signal, the first starts at sample 0 and the last ends at the final
\* sample
C22_KeySegments ==
    (pc \in {"key_detect", "key_done"} /\ Len(channelData) > 0) => segmentsSpanSignal

\* what the code does: with two segments or more they span the signal, and
\* a single segment is empty
KeySegmentsOutcome ==
    (pc \in {"key_detect", "key_done"} /\ Len(channelData) > 0) =>
        /\ keyNumSegments(channelData, sampleRate) >= 1
        /\ keyNumSegments(channelData, sampleRate) >= 2 => segmentsSpanSignal
        /\ keyNumSegments(channelData, sampleRate) = 1 =>
               dataLength(keySegment(channelData, sampleRate, 0)) = 0

-----------------------------------------------------------------------------
(* The vote of combineKeyResults *)

\* the segments that voted for the (root, mode) pair of segment k
votersOf(k) ==
    {m \in 1 .. Len(segmentResults) :
        /\ segmentResults[m].root = segmentResults[k].root
        /\ segmentResults[m].scale = segmentResults[k].scale}

\* the segments whose pair received the maximum number of votes
topVoted ==
    {k \in 1 .. Len(segmentResults) :
        \A m \in 1 .. Len(segmentResults) :
            Cardinality(votersOf(m)) <= Cardinality(votersOf(k))}

\* the segments that voted for the pair that extractKey returned
winners ==
    {k \in 1 .. Len(segmentResults) :
        /\ segmentResults[k].root = key.value.root
        /\ segmentResults[k].scale = key.value.scale}

\* C23 as stated: the pair returned received the maximum number of votes,
\* and it owns a segment whose correlation no segment of a pair with as
\* many votes exceeds
C23_MajorityVote ==
    (pc = "key_done" /\ key.status = "returned") =>
        /\ winners # {}
        /\ winners \subseteq topVoted
        /\ \E k \in winners :
               \A m \in topVoted :
                   ~rootGt(segmentResults[m].correlation, segmentResults[k].correlation)

\* what holds: the pair returned received the maximum number of votes
MaximumVotes ==
    (pc = "key_done" /\ key.status = "returned") =>
        /\ winners # {}
        /\ winners \subseteq topVoted

\* two pairs tie on votes, and extractKey has returned the one whose
\* segments all have a smaller correlation than a segment of the other
TiedVoteOutcome ==
    /\ pc = "key_done" /\ key.status = "returned"
    /\ \E m \in topVoted \ winners :
           \A k \in winners :
               rootGt(segmentResults[m].correlation, segmentResults[k].correlation)

-----------------------------------------------------------------------------
(* The key of one segment *)

\* the result detectKey gave for the chromagram of the last pass
lastKeyResult == segmentResults[Len(segmentResults)]

\* detectKey has returned for the chromagram held in chromagram
keyDetected == pc \in {"key_loop", "key_done"} /\ Len(segmentResults) > 0

chromaEnergy == SumRange([i \in 1 .. 12 |-> chromagram.sums[i] * chromagram.sums[i]], 1, 12)

profileOf(scale) == IF scale = "major" THEN MAJOR_PROFILE ELSE MINOR_PROFILE

sameRoot(a, b) == ~rootGt(a, b) /\ ~rootGt(b, a)

\* x clamped to [0.3, 1]
clampedCorrelation(x) ==
    IF rootGt(x, rootOfQ(1, 1)) THEN rootOfQ(1, 1)
    ELSE IF rootGt(rootOfQ(3, 10), x) THEN rootOfQ(3, 10)
    ELSE x

\* C24: for a chromagram with non-zero energy the correlation detectKey
\* returns is that of the (root, mode) it returns, no (root, mode) of the
\* 12 roots and 2 modes has a larger one, and the confidence is that
\* correlation clamped to [0.3, 1]
C24_BestCorrelation ==
    (keyDetected /\ chromaEnergy > 0) =>
        /\ lastKeyResult.root \in 0 .. 11
        /\ lastKeyResult.scale \in {"major", "minor"}
        /\ sameRoot(lastKeyResult.correlation,
                    correlateProfiles(chromagram, profileOf(lastKeyResult.scale),
                                      lastKeyResult.root))
        /\ \A root \in 0 .. 11, scale \in {"major", "minor"} :
               ~rootGt(correlateProfiles(chromagram, profileOf(scale), root),
                       lastKeyResult.correlation)
        /\ sameRoot(lastKeyResult.confidence, clampedCorrelation(lastKeyResult.correlation))

\* detectKey has returned a minor key of a root above 5 for a chromagram
\* with energy in more than one pitch class
C24_Witness ==
    /\ keyDetected
    /\ chromaEnergy > 0
    /\ Cardinality({i \in 1 .. 12 : chromagram.sums[i] > 0}) > 1
    /\ lastKeyResult.scale = "minor"
    /\ lastKeyResult.root > 5

-----------------------------------------------------------------------------
(* The statistics the complexity measure reads *)

\* calculateTimbreComplexity(features): the statistics it reads
complexityReads ==
    {<<"spectralSpread", "std">>, <<"spectralSpread", "mean">>,
     <<"harmonicContent", "mean">>,
     <<"spectralCentroid", "std">>, <<"spectralCentroid", "mean">>}

\* features[read[1]][read[2]] can be read and is not undefined
statisticPresent(features, read) ==
    /\ ~readThrows(prop(features, read[1]))
    /\ prop(prop(features, read[1]), read[2]).kind # "undefined"

\* C25: once extractTimbre has evaluated its derived measures on a signal
\* with at least one frame, every statistic calculateTimbreComplexity reads
\* of timbreFeatures is present and defined
C25_AggregatesPresent ==
    (pc = "timbre_done" /\ Len(segmentFeatures) >= 1) =>
        \A read \in complexityReads : statisticPresent(timbreFeatures, read)

\* what holds instead: none of the statistics is there, the object
\* aggregateTimbreFeatures returns has the means only
AggregatesOutcome ==
    (pc = "timbre_done" /\ Len(segmentFeatures) >= 1) =>
        /\ DOMAIN timbreFeatures.props =
               {"spectralCentroid", "complexity", "harmonicContent", "brightness",
                "roughness", "mfccs", "temporalVariation"}
        /\ \A read \in complexityReads : ~statisticPresent(timbreFeatures, read)
        /\ timbre.status = "threw"

-----------------------------------------------------------------------------
(* The spectral and harmonic features of one frame.                        *)
(*                                                                         *)
(* A magnitude is x / AmpScale, a frequency is a quotient, a spread is the *)
(* square root of a quotient.                                              *)

\* calculateMagnitudeSpectrum(signal, size): the absolute values of the
\* first size / 2 samples, magnitudes[i] at index i + 1
calculateMagnitudeSpectrum(signal, size) ==
    [i \in 1 .. size \div 2 |-> Abs(signal[i])]

\* the sum of the magnitudes and of magnitudes[i] * i
magnitudeSum(magnitudes) == SumRange(magnitudes, 1, Len(magnitudes))
weightedSum(magnitudes) ==
    SumRange([i \in 1 .. Len(magnitudes) |-> magnitudes[i] * (i - 1)], 1, Len(magnitudes))

\* calculateSpectralCentroid with the test of the denominator left out: 0 / 0
calculateSpectralCentroid_unguarded(magnitudes, sr, size) ==
    IF magnitudeSum(magnitudes) = 0 THEN numberNaN
    ELSE numberOf(sr * weightedSum(magnitudes), size * magnitudeSum(magnitudes))

\* calculateSpectralCentroid(magnitudes, frequencies) with frequencies[i] =
\* i * sr / size
calculateSpectralCentroid(magnitudes, sr, size) ==
    IF magnitudeSum(magnitudes) # 0
    THEN numberOf(sr * weightedSum(magnitudes), size * magnitudeSum(magnitudes))
    ELSE zero

\* calculateSpectralSpread(magnitudes, frequencies, centroid) for the centroid
\* of the same magnitudes: frequencies[i] - centroid is
\* (sr / size) * (i * M - S) / M for the sums M and S
calculateSpectralSpread(magnitudes, sr, size) ==
    LET M == magnitudeSum(magnitudes)
        S == weightedSum(magnitudes)
        T == SumRange([i \in 1 .. Len(magnitudes) |->
                          magnitudes[i] * ((i - 1) * M - S) * ((i - 1) * M - S)],
                      1, Len(magnitudes))
    IN  IF M # 0
        THEN rootOf(bigMul(bigOf(sr * sr), bigOf(T)),
                    bigMul(bigOf(size * size), bigOf(M * M * M)))
        ELSE zeroRoot

\* 1 / epsilon for const epsilon = 1e-6
flatnessEpsilon == 1000000

\* calculateSpectralFlatness(magnitudes): Math.exp of the mean logarithm of
\* magnitude + 1e-6, over the arithmetic mean
calculateSpectralFlatness(magnitudes) ==
    LET n == Len(magnitudes)
        M == magnitudeSum(magnitudes)
    IN  IF M # 0
        THEN flatnessOf([i \in 1 .. n |-> numberOf(magnitudes[i] * flatnessEpsilon + AmpScale,
                                                  AmpScale * flatnessEpsilon)],
                        numberOf(n * AmpScale, M))
        ELSE flatnessOf(<<>>, zero)

fundamental == 440

\* Math.round(frequency / fundamental) for frequency = i * sr / size
nearestHarmonic(i, sr, size) == RoundQ(i * sr, fundamental * size)

\* getHarmonicDeviation(frequency) for frequency = i * sr / size
getHarmonicDeviation(i, sr, size) ==
    numberOf(Abs(i * sr - nearestHarmonic(i, sr, size) * fundamental * size),
             fundamental * size)

\* isHarmonicFrequency(frequency) with the tolerance 0.1
isHarmonicFrequency(i, sr, size) == numLt(getHarmonicDeviation(i, sr, size), tenths(1))

\* calculateEnhancedHarmonicRatio(signal, sampleRate, fftSize)
calculateEnhancedHarmonicRatio(signal, sr, size) ==
    LET spectrum == calculateMagnitudeSpectrum(signal, size)
        totalEnergy == magnitudeSum(spectrum)
        harmonicEnergy ==
            SumRange([i \in 1 .. Len(spectrum) |->
                         IF isHarmonicFrequency(i - 1, sr, size) THEN spectrum[i] ELSE 0],
                     1, Len(spectrum))
    IN  IF totalEnergy > 0 THEN numberOf(harmonicEnergy, totalEnergy) ELSE zero

RECURSIVE deviationSum(_, _, _, _)
\* the sum of spectrum[i] * deviation over the first n entries
deviationSum(spectrum, sr, size, n) ==
    IF n = 0 THEN zero
    ELSE numAdd(deviationSum(spectrum, sr, size, n - 1),
                numMul(numberOf(spectrum[n], AmpScale),
                       getHarmonicDeviation(n - 1, sr, size)))

\* calculateInharmonicity(signal, sampleRate, fftSize)
calculateInharmonicity(signal, sr, size) ==
    LET spectrum == calculateMagnitudeSpectrum(signal, size)
        totalEnergy == magnitudeSum(spectrum)
    IN  IF totalEnergy > 0
        THEN numMul(deviationSum(spectrum, sr, size, Len(spectrum)),
                    numberOf(AmpScale, totalEnergy))
        ELSE zero

\* the frames the feature functions are applied to: FrameSize samples
FrameSize == 6
FrameSignals == [1 .. FrameSize -> {-1, 0, AmpScale}]
FrameRates == {1320, 2640}

SpectralInit ==
    /\ pc = "spectral_entry"
    /\ channelData \in FrameSignals
    /\ sampleRate \in FrameRates
    /\ tempoEntry
    /\ pitchEntry
    /\ timbreEntry
    /\ keyEntry
    /\ moodEntry
    /\ appEntry
    /\ unitEntry

\* calculateSpectralFeatures and calculateHarmonicFeatures on one frame
SpectralFeatures ==
    /\ pc = "spectral_entry"
    /\ LET size == Len(channelData)
           magnitudes == calculateMagnitudeSpectrum(channelData, size)
       IN  spectral' =
               [spectralCentroid |-> calculateSpectralCentroid(magnitudes, sampleRate, size),
                spectralSpread |-> calculateSpectralSpread(magnitudes, sampleRate, size),
                spectralFlatness |-> calculateSpectralFlatness(magnitudes),
                harmonicContent |->
                    calculateEnhancedHarmonicRatio(channelData, sampleRate, size),
                inharmonicity |-> calculateInharmonicity(channelData, sampleRate, size)]
    /\ pc' = "spectral_done"
    /\ UNCHANGED <<channelData, sampleRate, tempoVars, pitchVars, timbreVars, keyVars,
                   moodVars, appVars, rmsVars, onsetVars, emotionArgs, emotionLabel,
                   colorArgs, baseColor, inFlight, access>>

SpectralNext == SpectralFeatures

SpecSpectral == SpectralInit /\ [][SpectralNext]_vars

\* the magnitude spectrum of the frame is all zero
silentSpectrum ==
    \A i \in 1 .. Len(channelData) \div 2 : channelData[i] = 0

\* C26: for a frame whose magnitude spectrum is all zero the centroid, the
\* spread, the flatness, the harmonic ratio and the inharmonicity returned
\* are each the number 0
C26_SilentSpectrumZero ==
    (pc = "spectral_done" /\ silentSpectrum) =>
        /\ spectral.spectralCentroid = zero
        /\ sameRoot(spectral.spectralSpread, zeroRoot)
        /\ spectral.spectralFlatness.scale = zero
        /\ spectral.harmonicContent = zero
        /\ spectral.inharmonicity = zero

\* the features of a frame that is silent in the half the spectrum is taken
\* from and not silent in the other half
C26_Witness ==
    /\ pc = "spectral_done"
    /\ silentSpectrum
    /\ \E i \in 1 .. Len(channelData) : channelData[i] # 0

\* a frame with energy has features other than 0
SpectralOutcome ==
    /\ pc = "spectral_done"
    /\ spectral.spectralCentroid # zero
    /\ ~sameRoot(spectral.spectralSpread, zeroRoot)
    /\ spectral.harmonicContent \notin {zero, one}
    /\ spectral.inharmonicity # zero

-----------------------------------------------------------------------------
(* The times of the onsets *)

\* onsetTimes.push(i / originalSampleRate), as a quotient
onsetSeconds(i, originalSampleRate) == <<i, originalSampleRate>>

\* the time detectOnsets reports for index i: extractTempo passes
\* sampleRate * downsampleFactor as originalSampleRate
reportedTime(i) == onsetSeconds(i, sampleRate * downsampleFactor)

\* where sample i of the downsampled buffer lies in the audio, in seconds:
\* downsampledData[i] = channelData[i * downsampleFactor]
audioTime(i) == <<i * downsampleFactor, sampleRate>>

\* C27: every onset is reported at the time of its sample in the original
\* signal, 4 * i / sampleRate, and two successive onsets d seconds apart in
\* the audio give the BPM 60 / d
C27_OnsetSeconds ==
    /\ \A k \in 1 .. Len(onsetTimes) :
           QEq(reportedTime(onsetTimes[k]), audioTime(onsetTimes[k]))
    /\ \A k \in 2 .. Len(onsetTimes) :
           LET di == onsetTimes[k] - onsetTimes[k - 1]
           IN  QEq(intervalBpm(di, sampleRate), <<60 * sampleRate, di * downsampleFactor>>)

\* what holds instead: the reported time is the 16th part of the time in
\* the audio, and the BPM of an interval is 16 times that of the audio
OnsetSecondsOutcome ==
    /\ \A k \in 1 .. Len(onsetTimes) :
           LET t == reportedTime(onsetTimes[k])
           IN  QEq(<<t[1] * downsampleFactor * downsampleFactor, t[2]>>,
                   audioTime(onsetTimes[k]))
    /\ \A k \in 2 .. Len(onsetTimes) :
           LET di == onsetTimes[k] - onsetTimes[k - 1]
           IN  QEq(intervalBpm(di, sampleRate),
                   <<60 * sampleRate * downsampleFactor * downsampleFactor,
                     di * downsampleFactor>>)

-----------------------------------------------------------------------------
(* Termination of extractTempo *)

\* the step of TempoWindow as far as the loop over the window sizes goes:
\* under TempoNext the steps that advance windowIdx are those of TempoWindow,
\* and it is enabled exactly when TempoWindow is
TempoWindowAdvance ==
    /\ pc = "tempo_loop"
    /\ windowIdx <= 3
    /\ ~tempoHangs(downsample(channelData), sampleRate, windowIdx)
    /\ windowIdx' = windowIdx + 1

\* extractTempo runs alone: whenever it can take a step it takes one
FairSpecTempo ==
    /\ TempoInit
    /\ [][TempoNext]_vars
    /\ WF_windowIdx(TempoWindowAdvance)
    /\ WF_vars(TempoHang)
    /\ WF_vars(TempoReturn)

\* C28: extractTempo terminates: it reaches its return statement
C28_TempoTerminates == <>(pc = "tempo_done")

\* the hop size of the window size of pass k
tempoHopSize(sr, k) == windowSizes(sr)[k] \div 2

\* what holds instead: a loop of detectOnsets that never ends has hop size 0,
\* and below 128 Hz the third window size has it
TempoHangOutcome ==
    /\ pc = "tempo_hung" => tempoHopSize(sampleRate, windowIdx) = 0
    /\ sampleRate < 32 * downsampleFactor => tempoHopSize(sampleRate, 3) = 0

-----------------------------------------------------------------------------
(* Overlapping uploads.                                                    *)
(*                                                                         *)
(* handleFileUpload is an async function: a call runs up to                *)
(* await loadAudioFile(file) and is suspended there, and the user can drop *)
(* another file meanwhile.  When the decoding of a call settles, the call  *)
(* runs on to its end: extractTempo returns no promise, so the part after  *)
(* await extractTempo is a microtask of the same turn of the event loop    *)
(* and no other call comes in between.  The state of the component, set    *)
(* with setIsLoading, setError and setAudioFeatures, is shared by all      *)
(* calls.  The n-th file dropped has the name n.                           *)

OverlapFiles ==
    {corruptFile, silentSecond(SilentRate), decoded(<<>>, SilentRate),
     decoded(burstSignal(<<>>, 2, FALSE), SilentRate \div 2)}
    \cup {decoded(<<a>>, 44100) : a \in shortAmps}

OverlapInit ==
    /\ pc = "mounted"
    /\ channelData = <<>>
    /\ sampleRate = 0
    /\ tempoEntry
    /\ pitchEntry
    /\ timbreEntry
    /\ keyEntry
    /\ moodEntry
    /\ appEntry
    /\ unitEntry

\* a loop that never ends keeps the one thread: nothing else runs
threadBlocked == \E c \in 1 .. Len(inFlight) : inFlight[c].at = "hung"

suspended(c) == inFlight[c].at = "loading"

\* const file = files[0]; setIsLoading(true); setError(null);
\* await loadAudioFile(file)
OverlapStart ==
    /\ ~threadBlocked
    /\ uploads < MaxUploads
    /\ \E f \in OverlapFiles :
           inFlight' = Append(inFlight,
                              [file |-> f, fileName |-> uploads + 1, at |-> "loading",
                               overlaps |-> \E c \in 1 .. Len(inFlight) : suspended(c)])
    /\ uploads' = uploads + 1
    /\ isLoading' = TRUE
    /\ error' = "null"
    /\ UNCHANGED <<pc, channelData, sampleRate, tempoVars, pitchVars, timbreVars, keyVars,
                   moodVars, rms, file, audioFeatures, notifications, called, rmsVars,
                   onsetVars, emotionArgs, emotionLabel, colorArgs, baseColor, spectral,
                   access>>

\* decodeAudioData of call c rejects: catch and finally
OverlapRejected(c) ==
    /\ ~threadBlocked
    /\ suspended(c)
    /\ ~inFlight[c].file.decodable
    /\ caught
    /\ inFlight' = [inFlight EXCEPT ![c].at = "done"]
    /\ UNCHANGED <<pc, channelData, sampleRate, tempoVars, pitchVars, timbreVars, keyVars,
                   moodVars, rms, file, uploads, called, rmsVars,
                   onsetVars, emotionArgs, emotionLabel, colorArgs, baseColor, spectral,
                   access>>

\* the extractors of handleFileUpload up to extractKey, on a decoded file:
\* what the first of them that raises has thrown, or their results
featuresBeforeMood(f) ==
    LET timbreOf == extractTimbre(f.channelData)
    IN  IF timbreOf.status = "threw" THEN timbreOf
        ELSE LET keyOf == extractKey(f.channelData, f.sampleRate)
             IN  IF keyOf.status = "threw" THEN keyOf
                 ELSE returned([tempo |-> extractTempo(f.channelData, f.sampleRate),
                                rms |-> extractRms(f.channelData),
                                pitch |-> extractPitch(f.channelData, f.sampleRate),
                                timbre |-> timbreOf.value, key |-> keyOf.value])

\* extractMood(tempo, rms, key, timbre)
moodOfArgs(args) == extractMood(args.tempo, args.rms, args.key, args.timbre)

\* setAudioFeatures({ fileName: file.name, tempo, rms, pitch, timbre, key, mood })
\* and the Success notification, or catch when extractMood has raised; finally
storeFeatures(fileName, features, moodOf) ==
    IF moodOf.status = "threw" THEN caught
    ELSE /\ audioFeatures' =
                [present |-> TRUE, fileName |-> fileName, tempo |-> features.tempo,
                 rms |-> features.rms, pitch |-> features.pitch,
                 timbre |-> features.timbre, key |-> features.key,
                 mood |-> moodOf.value]
         /\ notifications' = Append(notifications, "Success")
         /\ isLoading' = FALSE
         /\ UNCHANGED error

\* the part of handleFileUpload after extractTempo has returned
analyzeUpload(fileName, before) ==
    IF before.status = "threw" THEN caught
    ELSE \E rmsArg \in MoodRms, confidence \in MoodLevels,
            measures \in [timbreMeasures -> MoodLevels] :
             storeFeatures(fileName, before.value,
                           moodOfArgs(moodArgsOf(before.value.tempo, rmsArg,
                                                 before.value.key.scale, confidence,
                                                 measures)))

\* loadAudioFile of call c resolves and the call runs to its end: the six
\* extractors, setAudioFeatures and the Success notification, or catch; and
\* finally
OverlapResolved(c) ==
    /\ ~threadBlocked
    /\ suspended(c)
    /\ inFlight[c].file.decodable
    /\ IF extractTempoHangs(inFlight[c].file.channelData, inFlight[c].file.sampleRate)
       THEN /\ inFlight' = [inFlight EXCEPT ![c].at = "hung"]
            /\ UNCHANGED <<isLoading, error, audioFeatures, notifications>>
       ELSE /\ inFlight' = [inFlight EXCEPT ![c].at = "done"]
            /\ analyzeUpload(inFlight[c].fileName, featuresBeforeMood(inFlight[c].file))
    /\ UNCHANGED <<pc, channelData, sampleRate, tempoVars, pitchVars, timbreVars, keyVars,
                   moodVars, rms, file, uploads, called, rmsVars,
                   onsetVars, emotionArgs, emotionLabel, colorArgs, baseColor, spectral,
                   access>>

OverlapNext ==
    \/ OverlapStart
    \/ \E c \in 1 .. Len(inFlight) : OverlapRejected(c)
    \/ \E c \in 1 .. Len(inFlight) : OverlapResolved(c)

SpecOverlap == OverlapInit /\ [][OverlapNext]_vars

\* the last upload was started while an earlier one was suspended, its file
\* and the files before it decode, and every call has completed
overlappedAndCompleted ==
    /\ Len(inFlight) >= 2
    /\ inFlight[Len(inFlight)].overlaps
    /\ \A c \in 1 .. Len(inFlight) :
           inFlight[c].at = "done" /\ inFlight[c].file.decodable

OverlapOutcome ==
    /\ audioFeatures = noFeatures
    /\ \A n \in 1 .. Len(notifications) : notifications[n] = "Error"
    /\ Len(notifications) = Cardinality({c \in 1 .. Len(inFlight) : inFlight[c].at = "done"})

\* the earlier upload completes after the later one
LateCompletionOutcome ==
    /\ Len(inFlight) = 2
    /\ inFlight[1].at = "loading"
    /\ inFlight[2].at = "done"

-----------------------------------------------------------------------------
(* improveColorAccessibility and the color functions it calls.             *)
(*                                                                         *)
(* A luminance is kept in units of 1 / LumScale, and Math.pow(x, 2.4) is   *)
(* computed in that fixed point as x^2 times the fifth root of x^2, each   *)
(* product rounded down.                                                   *)

\* hslToRgb(h, s, l) for integers h, s, l: k(n) in units of 1/30, and
\* f(n) = l - a * max(-1, min(k - 3, 9 - k, 1)) over 100 * 100 * 30
hslChannel(h, s, l, n) ==
    LET k == (30 * n + h) % 360
        t == Max(-30, Min(Min(k - 90, 270 - k), 30))
        f == l * 100 * 30 - s * Min(l, 100 - l) * t
    IN  RoundQ(255 * f, 100 * 100 * 30)

hslToRgb(h, s, l) == <<hslChannel(h, s, l, 0), hslChannel(h, s, l, 8), hslChannel(h, s, l, 4)>>

LumScale == 10 ^ 4

scaledProduct(a, b) == (a * b) \div LumScale
fifthPower(y) ==
    scaledProduct(scaledProduct(scaledProduct(scaledProduct(y, y), y), y), y)

RECURSIVE fifthRootIn(_, _, _)
\* the largest y in lo .. hi whose fifth power is at most q
fifthRootIn(q, lo, hi) ==
    IF lo >= hi THEN lo
    ELSE LET mid == (lo + hi + 1) \div 2
         IN  IF fifthPower(mid) <= q THEN fifthRootIn(q, mid, hi)
             ELSE fifthRootIn(q, lo, mid - 1)

\* c = c / 255; c <= 0.03928 ? c / 12.92 : Math.pow((c + 0.055) / 1.055, 2.4)
linearChannel(c) ==
    IF c * 100000 <= 3928 * 255
    THEN (c * LumScale * 100) \div (255 * 1292)
    ELSE \* (c / 255 + 0.055) / 1.055 = (40 c + 561) / 10761
         LET x == ((40 * c + 561) * LumScale) \div 10761
             x2 == scaledProduct(x, x)
         IN  scaledProduct(x2, fifthRootIn(x2, 0, LumScale))

\* getRelativeLuminance(r, g, b)
getRelativeLuminance(rgb) ==
    (2126 * linearChannel(rgb[1]) + 7152 * linearChannel(rgb[2])
        + 722 * linearChannel(rgb[3])) \div 10000

isInteger(x) == ~x.isNaN /\ x.q[2] = 1

\* the regular expression of parseColor matches: every component of the
\* string is a run of digits
matchesHsl(color) == color.h >= 0 /\ color.s >= 0 /\ isInteger(color.l) /\ color.l.q[1] >= 0

\* parseColor(color) with the format 'rgb'
parseColor(color) ==
    IF matchesHsl(color) THEN returned(hslToRgb(color.h, color.s, color.l.q[1]))
    ELSE threw("Invalid color format")

\* getContrastRatio(color1, color2): (lighter + 0.05) / (darker + 0.05) as a
\* number
getContrastRatio(color1, color2) ==
    LET rgb1 == parseColor(color1)
        rgb2 == parseColor(color2)
    IN  IF rgb1.status = "threw" THEN rgb1
        ELSE IF rgb2.status = "threw" THEN rgb2
        ELSE LET l1 == getRelativeLuminance(rgb1.value)
                 l2 == getRelativeLuminance(rgb2.value)
             IN  returned(numberOf(20 * Max(l1, l2) + LumScale, 20 * Min(l1, l2) + LumScale))

numAbs(x) == IF x.isNaN THEN x ELSE numberOf(Abs(x.q[1]), x.q[2])

AccessHues == {0, 120, 210}
AccessSaturations == {0, 60, 100}
AccessLightness == {0, 15, 40, 55, 80, 100}
AccessBackgrounds == {hsl(0, 0, numberOf(100, 1)), hsl(0, 0, zero)}
AccessRatios == {numberOf(3, 1), numberOf(9, 2), numberOf(7, 1)}

AccessInit ==
    /\ pc = "access_loop"
    /\ channelData = <<>>
    /\ sampleRate = 44100
    /\ tempoEntry
    /\ pitchEntry
    /\ timbreEntry
    /\ keyEntry
    /\ moodEntry
    /\ appEntry
    /\ rmsStart = 0
    /\ rmsSum = 0
    /\ rmsCount = 0
    /\ onsetEntry
    /\ emotionArgs = [arousal |-> zero, valence |-> zero, dominance |-> zero]
    /\ emotionLabel = "none"
    /\ colorArgs = [bpm |-> numberOf(120, 1), pitch |-> numberOf(0, 1), rms |-> zero]
    /\ baseColor = [h |-> 0, s |-> 0, l |-> 0]
    /\ spectralEntry
    /\ inFlight = <<>>
    /\ \E h \in AccessHues, s \in AccessSaturations, l \in AccessLightness,
          backgroundColor \in AccessBackgrounds, targetRatio \in AccessRatios :
           access = accessEntry(hsl(h, s, numberOf(l, 1)), backgroundColor, targetRatio)

accessUnchanged ==
    UNCHANGED <<channelData, sampleRate, tempoVars, pitchVars, timbreVars, keyVars,
                moodVars, appVars, rmsVars, onsetVars, emotionArgs, emotionLabel,
                colorArgs, baseColor, spectral, inFlight>>

\* getContrastRatio(color, backgroundColor) of the loop condition and of the
\* if statement
accessContrast == getContrastRatio(access.color, access.backgroundColor)

\* getContrastRatio(color, backgroundColor) raises
AccessThrow ==
    /\ pc = "access_loop"
    /\ accessContrast.status = "threw"
    /\ pc' = "access_threw"
    /\ UNCHANGED access
    /\ accessUnchanged

\* the condition of the while loop, once getContrastRatio has returned
accessLoopCondition ==
    /\ numLt(accessContrast.value, access.targetRatio)
    /\ numLt(numAbs(numSub(access.color.l, access.originalL)), numberOf(50, 1))

\* one pass of the while loop
AccessPass ==
    /\ pc = "access_loop"
    /\ accessContrast.status = "returned"
    /\ accessLoopCondition
    /\ LET l == numMax(zero, numMin(numberOf(100, 1),
                      numAdd(access.color.l,
                             numMul(access.step, numberOf(access.direction, 1)))))
           atBound == ~numLt(l, numberOf(100, 1)) \/ ~numGt(l, zero)
       IN  access' = [access EXCEPT
                          !.color = hsl(access.color.h, access.color.s, l),
                          !.direction = IF atBound THEN -access.direction
                                        ELSE access.direction,
                          !.step = IF atBound THEN numMax(one, numHalf(access.step))
                                   ELSE access.step]
    /\ UNCHANGED pc
    /\ accessUnchanged

\* the loop is left: the if statement on the saturation, and return color
AccessReturn ==
    /\ pc = "access_loop"
    /\ accessContrast.status = "returned"
    /\ ~accessLoopCondition
    /\ access' = IF numLt(accessContrast.value, access.targetRatio)
                 THEN [access EXCEPT !.color = hsl(access.color.h,
                                                   Max(0, access.color.s - 20),
                                                   access.color.l)]
                 ELSE access
    /\ pc' = "access_done"
    /\ accessUnchanged

AccessNext == AccessThrow \/ AccessPass \/ AccessReturn

SpecAccess == AccessInit /\ [][AccessNext]_vars

\* C30: improveColorAccessibility never raises 'Invalid color format', and
\* every color it forms is an HSL string with integer components that
\* parseColor accepts
C30_NeverInvalidFormat ==
    /\ pc # "access_threw"
    /\ matchesHsl(access.color)

\* what holds instead: the call raises exactly when the lightness has
\* reached 0 or 100 with the contrast still below the target, the step then
\* being 2.5
AccessOutcome ==
    /\ pc = "access_threw" =>
           /\ access.step = numberOf(5, 2)
           /\ access.color.l \in {numberOf(5, 2), numberOf(195, 2)}
    /\ ~matchesHsl(access.color) => pc \in {"access_loop", "access_threw"}
    /\ pc \in {"access_loop", "access_threw", "access_done"}

====
